---- MODULE Spec2Model ----
(***************************************************************************)
(* The I/O statement API of the Fortran runtime (flang/runtime/io-api.cpp) *)
(* as a state machine: the unit registry, the stack of statements in       *)
(* progress (a parent transfer and the statement nested in its defined-I/O *)
(* callback), and one action per entry point of the API.                   *)
(***************************************************************************)
EXTENDS Integers, Sequences, FiniteSets, TLC

VARIABLES
    units,      \* the unit registry: unit number -> unit attributes
    stack,      \* statements in progress, innermost last (the cookies)
    crashed,    \* "none", or the class of the fatal abort that ended the run
    last,       \* the API call made last: its name, arguments and result
    nstmts,     \* Begin calls made so far
    nsets,      \* Set* calls made so far
    ngets,      \* EnableHandlers, Get* and data transfer calls made so far
    threads,    \* with several threads: each thread's statements and the
                \*   Begin call it is in the middle of
    lock,       \* with several threads: unit number -> the thread holding
                \*   the unit's lock
    eval        \* the call of a function of the API that acts on no
                \*   statement: its arguments and its result

\* What the calls of a single thread on statements leave alone
others == <<threads, lock, eval>>

vars == <<units, stack, crashed, last, nstmts, nsets, ngets, threads, lock, eval>>

\* --------------------------------------------------------------- bounds
MaxCalls == 4       \* counted API calls in one run, of which at most
MaxStmts == 3       \*   Begin calls
MaxSets == 2        \*   Set* calls
MaxGets == 2        \*   EnableHandlers, Get* and data transfer calls
MaxAsyncId == 1     \* asynchronous ids a unit hands out
MaxRecl == 2        \* RECL= values tried: 0 .. MaxRecl

\* ------------------------------------------------------------ constants
DefaultUnit == -1
NoUnit == -100
NullCookie == [kind |-> "null"]

\* unit numbers the registry can hold, and the numbers passed to Begin calls
NewUnitNumbers == {-3}
UnitNumbers == {5, 6} \cup NewUnitNumbers
UnitArgs == {-2, DefaultUnit, 6} \cup NewUnitNumbers

Channels == {"IoStat", "Err", "End", "Eor", "IoMsg"}

\* ---------------------------------------------------------------- units
\* An unconnected slot of the registry
Unconnected ==
    [connected |-> FALSE, isUnformatted |-> "none", direction |-> "none",
     access |-> "Sequential", mayRead |-> TRUE, mayWrite |-> TRUE,
     mayAsynchronous |-> FALSE, openRecl |-> 0, isUTF8 |-> FALSE,
     recordLength |-> FALSE, asyncIds |-> {}, child |-> FALSE]

\* A unit as the registry creates it: default-configured
NewUnitRec == [Unconnected EXCEPT !.connected = TRUE]

IsConnected(us, n) == n \in UnitNumbers /\ us[n].connected

\* ExternalFileUnit::LookUp
LookUp(us, n) == IF IsConnected(us, n) THEN n ELSE NoUnit

\* UnitMap::LookUpOrCreate: creates only non-negative unit numbers
CanCreate(n) == n \in UnitNumbers /\ n >= 0

LookUpOrCreate(us, n) ==
    IF IsConnected(us, n)
    THEN [unit |-> n, wasExtant |-> TRUE, units |-> us]
    ELSE IF CanCreate(n)
         THEN [unit |-> n, wasExtant |-> FALSE,
               units |-> [us EXCEPT ![n] = NewUnitRec]]
         ELSE [unit |-> NoUnit, wasExtant |-> FALSE, units |-> us]

\* ExternalFileUnit::LookUpOrCreateAnonymous: a unit it creates is opened
\* for the requested direction and formatting; a unit it finds is left alone
LookUpOrCreateAnonymous(us, n, dir, isUnformatted) ==
    LET r == LookUpOrCreate(us, n)
    IN  IF r.unit # NoUnit /\ ~r.wasExtant
        THEN [unit |-> r.unit,
              units |-> [r.units EXCEPT ![n].isUnformatted = isUnformatted,
                                        ![n].direction = dir]]
        ELSE [unit |-> r.unit, units |-> r.units]

\* ------------------------------------------------------------ statements
TransferKinds == {"ExternalList", "ExternalFormatted", "ExternalUnformatted"}
ChildKinds == {"ChildList", "ChildFormatted", "ChildUnformatted"}
InternalKinds == {"InternalList", "InternalFormatted"}

\* A statement state (what a cookie points to) of variant `kind`
NewStmt(kind, unit, dir) ==
    [kind |-> kind, which |-> "none", unit |-> unit, dir |-> dir,
     viaChild |-> FALSE, flags |-> {}, ioStat |-> "Ok", pending |-> "Ok",
     begun |-> "Ok", detected |-> "Ok", completed |-> FALSE, wasExtant |-> FALSE,
     oAccess |-> "none", oAction |-> "none", oPosition |-> "none",
     oStatus |-> "none", oForm |-> "none", oConvert |-> "none",
     oPath |-> FALSE,
     nonAdvancing |-> FALSE, pad |-> TRUE, editingFlags |-> {},
     delim |-> "none", round |-> "default", async |-> FALSE,
     callback |-> FALSE]

Top == stack[Len(stack)]

\* The threads that issue I/O statements, and a thread that is in no statement
Threads == {"T1", "T2"}
NoThread == "none"
Idle == [stack |-> <<>>, begin |-> NullCookie]

\* No call of a function that acts on no statement has been made
NoEval == [fn |-> "none"]

\* IoErrorHandler::InError
InError(s) == s.ioStat # "Ok" \/ s.pending # "Ok"

Init ==
    /\ units = [n \in UnitNumbers |-> Unconnected]
    /\ stack = <<>>
    /\ crashed = "none"
    /\ last = [op |-> "none", unit |-> NoUnit, arg |-> "none", ret |-> "none",
               out |-> NoUnit]
    /\ nstmts = 0
    /\ nsets = 0
    /\ ngets = 0
    /\ threads = [t \in Threads |-> Idle]
    /\ lock = [n \in UnitNumbers |-> NoThread]
    /\ eval = NoEval

\* ------------------------------------------------- error/status handler
\* The outcome of one API call on a statement: the statement and registry
\* after it, the value returned, and the class of fatal abort if it aborted
O(s, us, ret, crash) == [s |-> s, units |-> us, ret |-> ret, crash |-> crash]

\* The history of a statement kept to state properties of it: `begun` is the
\* status its Begin call detected, `detected` the first status detected at all
Detect(s, iostat) == [s EXCEPT !.detected = IF @ = "Ok" THEN iostat ELSE @]

\* IoErrorHandler::SignalError: stored when a channel is enabled (the first
\* status wins), a fatal abort otherwise
SignalError(s, us, iostat, ret) ==
    IF iostat = "Ok" THEN O(s, us, ret, "none")
    ELSE IF s.flags # {}
    THEN O([Detect(s, iostat) EXCEPT !.ioStat = IF @ = "Ok" THEN iostat ELSE @],
           us, ret, "none")
    ELSE O(Detect(s, iostat), us, ret, "unhandled")

\* IoErrorHandler::Crash: the fatal misuse path, whatever channels are enabled
Crash(s, us) == O(s, us, "none", "misuse")

\* IoErrorHandler::SetPendingError
SetPendingError(s, iostat) ==
    [Detect(s, iostat) EXCEPT !.pending = iostat, !.begun = iostat]

\* IoErrorHandler::SignalPendingError
SignalPendingError(s, us, ret) ==
    IF s.pending = "Ok" THEN O(s, us, ret, "none")
    ELSE SignalError([s EXCEPT !.pending = "Ok"], us, s.pending, ret)

\* IdentifyValue: the index of the keyword in the table, -1 when absent
IdentifyValue(keyword, table) ==
    IF \E i \in 1..Len(table) : table[i] = keyword
    THEN (CHOOSE i \in 1..Len(table) : table[i] = keyword) - 1
    ELSE -1

Bool(b) == IF b THEN "true" ELSE "false"

\* IoStatementState::GetExternalFileUnit
GetExternalFileUnit(s) == s.unit

\* unit->GetChildIo() != nullptr
GetChildIo(us, u) == u # NoUnit /\ us[u].child

\* get_if<ExternalIoStatementBase>
IsExternalIoStatementBase(s) ==
    s.kind \in TransferKinds \cup {"Open", "Close", "Misc", "InquireUnit"}

\* io.GetConnectionState().access
ConnectionAccess(s, us) ==
    IF s.unit # NoUnit THEN us[s.unit].access ELSE "Sequential"

\* ----------------------------------------------------- control list items
\* EnableHandlers
EnableHandlers(s, us, chans) == {O([s EXCEPT !.flags = @ \cup chans], us, "none", "none")}

\* YesOrNo taking every keyword other than YES for NO
YesOrNoDefaultsNo(s, us, keyword) ==
    LET i == IdentifyValue(keyword, <<"YES", "NO">>)
    IN  IF i = 0 THEN [yes |-> TRUE, o |-> O(s, us, "none", "none")]
        ELSE [yes |-> FALSE, o |-> O(s, us, "none", "none")]

\* YesOrNo: the answer and the statement after the handler saw the keyword
YesOrNo(s, us, keyword) ==
    LET i == IdentifyValue(keyword, <<"YES", "NO">>)
    IN  IF i = 0 THEN [yes |-> TRUE, o |-> O(s, us, "none", "none")]
        ELSE IF i = 1 THEN [yes |-> FALSE, o |-> O(s, us, "none", "none")]
        ELSE [yes |-> FALSE, o |-> SignalError(s, us, "ErrorInKeyword", "none")]

Ret(o, ret) == [o EXCEPT !.ret = ret]

\* SetAdvance
SetAdvance(s, us, keyword) ==
    LET y == YesOrNo(s, us, keyword)
        nonAdvancing == ~y.yes
        s1 == y.o.s
    IN  IF y.o.crash # "none" THEN {y.o}
        ELSE IF nonAdvancing /\ ConnectionAccess(s1, us) = "Direct"
        THEN LET o == SignalError(s1, us, "GenericError", "none")
             IN  {Ret(o, Bool(~InError(o.s)))}
        ELSE IF GetChildIo(us, GetExternalFileUnit(s1))
        THEN {O(s1, us, Bool(~InError(s1)), "none")}
        ELSE {O([s1 EXCEPT !.nonAdvancing = nonAdvancing], us,
                Bool(~InError(s1)), "none")}

\* SetBlank
SetBlank(s, us, keyword) ==
    LET i == IdentifyValue(keyword, <<"NULL", "ZERO">>)
    IN  IF i = 0
        THEN {O([s EXCEPT !.editingFlags = @ \ {"blankZero"}], us, "true", "none")}
        ELSE IF i = 1
        THEN {O([s EXCEPT !.editingFlags = @ \cup {"blankZero"}], us, "true", "none")}
        ELSE {SignalError(s, us, "ErrorInKeyword", "false")}

\* SetDecimal
SetDecimal(s, us, keyword) ==
    LET i == IdentifyValue(keyword, <<"COMMA", "POINT">>)
    IN  IF i = 0
        THEN {O([s EXCEPT !.editingFlags = @ \cup {"decimalComma"}], us, "true", "none")}
        ELSE IF i = 1
        THEN {O([s EXCEPT !.editingFlags = @ \ {"decimalComma"}], us, "true", "none")}
        ELSE {SignalError(s, us, "ErrorInKeyword", "false")}

\* SetDelim
SetDelim(s, us, keyword) ==
    LET i == IdentifyValue(keyword, <<"APOSTROPHE", "QUOTE", "NONE">>)
    IN  IF i = 0 THEN {O([s EXCEPT !.delim = "apostrophe"], us, "true", "none")}
        ELSE IF i = 1 THEN {O([s EXCEPT !.delim = "quote"], us, "true", "none")}
        ELSE IF i = 2 THEN {O([s EXCEPT !.delim = "none"], us, "true", "none")}
        ELSE {SignalError(s, us, "ErrorInKeyword", "false")}

\* SetPad
SetPad(s, us, keyword) ==
    LET y == YesOrNo(s, us, keyword)
    IN  IF y.o.crash # "none" THEN {y.o}
        ELSE {O([y.o.s EXCEPT !.pad = y.yes], us, Bool(~InError(y.o.s)), "none")}

\* ExternalFileUnit::SetStreamPos
SetStreamPos(s, us, pos) ==
    IF us[s.unit].access # "Stream" THEN SignalError(s, us, "GenericError", "false")
    ELSE IF pos < 1 THEN SignalError(s, us, "GenericError", "false")
    ELSE O(s, us, "true", "none")

\* ExternalFileUnit::SetDirectRec
SetDirectRec(s, us, rec) ==
    IF us[s.unit].access # "Direct" THEN SignalError(s, us, "GenericError", "false")
    ELSE IF rec < 1 THEN SignalError(s, us, "GenericError", "false")
    ELSE O(s, us, "true", "none")

\* SetPos
SetPos(s, us, pos) ==
    IF GetExternalFileUnit(s) # NoUnit THEN {SetStreamPos(s, us, pos)}
    ELSE IF s.kind # "Erroneous" THEN {Crash(s, us)}
    ELSE {O(s, us, "false", "none")}

\* SetRec
SetRec(s, us, rec) ==
    IF GetExternalFileUnit(s) # NoUnit
    THEN IF GetChildIo(us, GetExternalFileUnit(s))
         THEN {Ret(SignalError(s, us, "BadOpOnChildUnit", "true"), "true")}
         ELSE {Ret(SetDirectRec(s, us, rec), "true")}
    ELSE IF s.kind # "Erroneous" THEN {Crash(s, us)}
    ELSE {O(s, us, "true", "none")}

\* SetRound
SetRound(s, us, keyword) ==
    LET table == <<"UP", "DOWN", "ZERO", "NEAREST", "COMPATIBLE", "PROCESSOR_DEFINED">>
        modes == <<"RoundUp", "RoundDown", "RoundToZero", "RoundNearest",
                   "RoundCompatible", "default">>
        i == IdentifyValue(keyword, table)
    IN  IF i >= 0 THEN {O([s EXCEPT !.round = modes[i + 1]], us, "true", "none")}
        ELSE {SignalError(s, us, "ErrorInKeyword", "false")}

\* SetSign
SetSign(s, us, keyword) ==
    LET i == IdentifyValue(keyword, <<"PLUS", "SUPPRESS", "PROCESSOR_DEFINED">>)
    IN  IF i = 0
        THEN {O([s EXCEPT !.editingFlags = @ \cup {"signPlus"}], us, "true", "none")}
        ELSE IF i \in {1, 2}
        THEN {O([s EXCEPT !.editingFlags = @ \ {"signPlus"}], us, "true", "none")}
        ELSE {SignalError(s, us, "ErrorInKeyword", "false")}

\* -------------------------------------------------- OPEN-only specifiers
\* The guard treating a no-op statement like an erroneous one
OpenOnlyGuardNoopBenign(s, us) ==
    IF s.kind # "Open"
    THEN IF s.kind \notin {"Erroneous", "Noop"}
         THEN {Crash(s, us)} ELSE {O(s, us, "false", "none")}
    ELSE IF s.completed THEN {Crash(s, us)} ELSE {}

\* The guard without the test for a completed OPEN
OpenOnlyGuardIgnoresCompleted(s, us) ==
    IF s.kind # "Open"
    THEN IF s.kind # "Erroneous" THEN {Crash(s, us)} ELSE {O(s, us, "false", "none")}
    ELSE {}

\* The guard every OPEN-only setter starts with: the outcomes that end the
\* call early, or {} when the call goes on to its keyword table
OpenOnlyGuard(s, us) ==
    IF s.kind # "Open"
    THEN IF s.kind # "Erroneous" THEN {Crash(s, us)} ELSE {O(s, us, "false", "none")}
    ELSE IF s.completed THEN {Crash(s, us)} ELSE {}

\* SetAccess
SetAccess(s, us, keyword) ==
    LET i == IdentifyValue(keyword, <<"SEQUENTIAL", "DIRECT", "STREAM", "APPEND">>)
        g == OpenOnlyGuard(s, us)
    IN  IF g # {} THEN g
        ELSE IF i = 0 THEN {O([s EXCEPT !.oAccess = "Sequential"], us, "true", "none")}
        ELSE IF i = 1 THEN {O([s EXCEPT !.oAccess = "Direct"], us, "true", "none")}
        ELSE IF i = 2 THEN {O([s EXCEPT !.oAccess = "Stream"], us, "true", "none")}
        ELSE IF i = 3 THEN {O([s EXCEPT !.oPosition = "Append"], us, "true", "none")}
        ELSE {SignalError(s, us, "ErrorInKeyword", "true")}

\* SetAction
SetAction(s, us, keyword) ==
    LET i == IdentifyValue(keyword, <<"READ", "WRITE", "READWRITE">>)
        action == <<"Read", "Write", "ReadWrite">>[i + 1]
        g == OpenOnlyGuard(s, us)
    IN  IF g # {} THEN g
        ELSE IF i < 0 THEN {SignalError(s, us, "ErrorInKeyword", "false")}
        ELSE LET o == IF s.wasExtant
                         /\ (((action # "Write") # us[s.unit].mayRead)
                             \/ ((action # "Read") # us[s.unit].mayWrite))
                      THEN SignalError(s, us, "GenericError", "true")
                      ELSE O(s, us, "true", "none")
             IN  IF o.crash # "none" THEN {o}
                 ELSE {[o EXCEPT !.s.oAction = action]}

\* SetCarriagecontrol
SetCarriagecontrol(s, us, keyword) ==
    LET i == IdentifyValue(keyword, <<"LIST", "FORTRAN", "NONE">>)
        g == OpenOnlyGuard(s, us)
    IN  IF g # {} THEN g
        ELSE IF i = 0 THEN {O(s, us, "true", "none")}
        ELSE {SignalError(s, us, "ErrorInKeyword", "false")}

\* GetConvertFromString and SetConvert
SetConvert(s, us, keyword) ==
    LET i == IdentifyValue(keyword,
                 <<"UNKNOWN", "NATIVE", "LITTLE_ENDIAN", "BIG_ENDIAN", "SWAP">>)
        g == OpenOnlyGuard(s, us)
    IN  IF g # {} THEN g
        ELSE IF i >= 0 THEN {O([s EXCEPT !.oConvert = keyword], us, "true", "none")}
        ELSE {SignalError(s, us, "ErrorInKeyword", "false")}

\* SetEncoding
SetEncoding(s, us, keyword) ==
    LET i == IdentifyValue(keyword, <<"UTF-8", "DEFAULT">>)
        g == OpenOnlyGuard(s, us)
    IN  IF g # {} THEN g
        ELSE IF i = 0 THEN {O(s, [us EXCEPT ![s.unit].isUTF8 = TRUE], "true", "none")}
        ELSE IF i = 1 THEN {O(s, [us EXCEPT ![s.unit].isUTF8 = FALSE], "true", "none")}
        ELSE {SignalError(s, us, "ErrorInKeyword", "true")}

\* SetForm accepting the keyword without recording it
SetFormNotRecorded(s, us, keyword) ==
    LET i == IdentifyValue(keyword, <<"FORMATTED", "UNFORMATTED">>)
    IN  IF s.kind # "Open"
        THEN IF s.kind # "Erroneous" THEN {Crash(s, us)}
             ELSE {O(s, us, "none", "segv"), O(s, us, "true", "none")}
        ELSE IF s.completed THEN {Crash(s, us)}
        ELSE IF i >= 0 THEN {O(s, us, "true", "none")}
        ELSE {SignalError(s, us, "ErrorInKeyword", "true")}

\* SetForm: on an erroneous statement the null OPEN state is dereferenced,
\* which either faults or goes on without a visible effect
SetForm(s, us, keyword) ==
    LET i == IdentifyValue(keyword, <<"FORMATTED", "UNFORMATTED">>)
    IN  IF s.kind # "Open"
        THEN IF s.kind # "Erroneous" THEN {Crash(s, us)}
             ELSE {O(s, us, "none", "segv"), O(s, us, "true", "none")}
        ELSE IF s.completed THEN {Crash(s, us)}
        ELSE IF i = 0 THEN {O([s EXCEPT !.oForm = "false"], us, "true", "none")}
        ELSE IF i = 1 THEN {O([s EXCEPT !.oForm = "true"], us, "true", "none")}
        ELSE {SignalError(s, us, "ErrorInKeyword", "true")}

\* SetPosition
SetPosition(s, us, keyword) ==
    LET i == IdentifyValue(keyword, <<"ASIS", "REWIND", "APPEND">>)
        g == OpenOnlyGuard(s, us)
    IN  IF g # {} THEN g
        ELSE IF i = 0 THEN {O([s EXCEPT !.oPosition = "AsIs"], us, "true", "none")}
        ELSE IF i = 1 THEN {O([s EXCEPT !.oPosition = "Rewind"], us, "true", "none")}
        ELSE IF i = 2 THEN {O([s EXCEPT !.oPosition = "Append"], us, "true", "none")}
        ELSE {SignalError(s, us, "ErrorInKeyword", "true")}

\* SetRecl refusing only a negative RECL=
SetReclAcceptsZero(s, us, n) ==
    LET g == OpenOnlyGuard(s, us)
    IN  IF g # {} THEN g
        ELSE IF n < 0 THEN {SignalError(s, us, "GenericError", "false")}
        ELSE IF s.wasExtant /\ us[s.unit].openRecl # n
        THEN {SignalError(s, us, "GenericError", "false")}
        ELSE {O(s, [us EXCEPT ![s.unit].openRecl = n], "true", "none")}

\* SetRecl storing every positive RECL=, also on a unit that was open
SetReclIgnoresExtant(s, us, n) ==
    LET g == OpenOnlyGuard(s, us)
    IN  IF g # {} THEN g
        ELSE IF n <= 0 THEN {SignalError(s, us, "GenericError", "false")}
        ELSE {O(s, [us EXCEPT ![s.unit].openRecl = n], "true", "none")}

\* SetRecl
SetRecl(s, us, n) ==
    LET g == OpenOnlyGuard(s, us)
    IN  IF g # {} THEN g
        ELSE IF n <= 0 THEN {SignalError(s, us, "GenericError", "false")}
        ELSE IF s.wasExtant /\ us[s.unit].openRecl # n
        THEN {SignalError(s, us, "GenericError", "false")}
        ELSE {O(s, [us EXCEPT ![s.unit].openRecl = n], "true", "none")}

\* SetStatus looking the keyword up in the CLOSE table on a no-op statement
SetStatusValidatesNoop(s, us, keyword) ==
    IF s.kind = "Open"
    THEN IF s.completed THEN {Crash(s, us)}
         ELSE LET i == IdentifyValue(keyword,
                           <<"OLD", "NEW", "SCRATCH", "REPLACE", "UNKNOWN">>)
              IN  IF i >= 0
                  THEN {O([s EXCEPT !.oStatus = keyword], us, "true", "none")}
                  ELSE {SignalError(s, us, "ErrorInKeyword", "false")}
    ELSE IF s.kind \in {"Close", "Noop"}
    THEN LET i == IdentifyValue(keyword, <<"KEEP", "DELETE">>)
         IN  IF i >= 0
             THEN {O([s EXCEPT !.oStatus = keyword], us, "true", "none")}
             ELSE {SignalError(s, us, "ErrorInKeyword", "false")}
    ELSE IF s.kind = "Erroneous" THEN {O(s, us, "true", "none")}
    ELSE {Crash(s, us)}

\* SetStatus
SetStatus(s, us, keyword) ==
    IF s.kind = "Open"
    THEN IF s.completed THEN {Crash(s, us)}
         ELSE LET i == IdentifyValue(keyword,
                           <<"OLD", "NEW", "SCRATCH", "REPLACE", "UNKNOWN">>)
              IN  IF i >= 0
                  THEN {O([s EXCEPT !.oStatus = keyword], us, "true", "none")}
                  ELSE {SignalError(s, us, "ErrorInKeyword", "false")}
    ELSE IF s.kind = "Close"
    THEN LET i == IdentifyValue(keyword, <<"KEEP", "DELETE">>)
         IN  IF i >= 0
             THEN {O([s EXCEPT !.oStatus = keyword], us, "true", "none")}
             ELSE {SignalError(s, us, "ErrorInKeyword", "false")}
    ELSE IF s.kind \in {"Noop", "Erroneous"} THEN {O(s, us, "true", "none")}
    ELSE {Crash(s, us)}

\* SetFile
SetFile(s, us) ==
    IF s.kind = "Open"
    THEN IF s.completed THEN {Crash(s, us)}
         ELSE {O([s EXCEPT !.oPath = TRUE], us, "true", "none")}
    ELSE IF s.kind # "Erroneous" THEN {Crash(s, us)}
    ELSE {O(s, us, "false", "none")}

\* ExternalIoStatementBase::SetAsynchronous: the unit hands out an id
ExtSetAsynchronous(s, us) ==
    LET free == {i \in 1..MaxAsyncId : i \notin us[s.unit].asyncIds}
    IN  IF free = {} THEN O([s EXCEPT !.async = TRUE], us, "none", "none")
        ELSE O([s EXCEPT !.async = TRUE],
               [us EXCEPT ![s.unit].asyncIds =
                    @ \cup {CHOOSE i \in free : \A j \in free : i <= j}],
               "none", "none")

\* SetAsynchronous marking the statement without asking the unit
SetAsynchronousIgnoresCapability(s, us, keyword) ==
    LET y == YesOrNo(s, us, keyword)
        s1 == y.o.s
    IN  IF y.o.crash # "none" THEN {y.o}
        ELSE IF s1.kind = "Open"
        THEN IF s1.completed THEN {Crash(s1, us)}
             ELSE {O(s1, [us EXCEPT ![s1.unit].mayAsynchronous = y.yes],
                     Bool(~InError(s1)), "none")}
        ELSE IF IsExternalIoStatementBase(s1)
        THEN IF y.yes
             THEN {Ret(ExtSetAsynchronous(s1, us), Bool(~InError(s1)))}
             ELSE {O(s1, us, Bool(~InError(s1)), "none")}
        ELSE IF s1.kind # "Erroneous" THEN {Crash(s1, us)}
        ELSE {O(s1, us, Bool(~InError(s1)), "none")}

\* SetAsynchronous
SetAsynchronous(s, us, keyword) ==
    LET y == YesOrNo(s, us, keyword)
        s1 == y.o.s
    IN  IF y.o.crash # "none" THEN {y.o}
        ELSE IF s1.kind = "Open"
        THEN IF s1.completed THEN {Crash(s1, us)}
             ELSE {O(s1, [us EXCEPT ![s1.unit].mayAsynchronous = y.yes],
                     Bool(~InError(s1)), "none")}
        ELSE IF IsExternalIoStatementBase(s1)
        THEN IF y.yes
             THEN IF us[s1.unit].mayAsynchronous
                  THEN {Ret(ExtSetAsynchronous(s1, us), Bool(~InError(s1)))}
                  ELSE LET o == SignalError(s1, us, "BadAsynchronous", "none")
                       IN  {Ret(o, Bool(~InError(o.s)))}
             ELSE {O(s1, us, Bool(~InError(s1)), "none")}
        ELSE IF s1.kind # "Erroneous" THEN {Crash(s1, us)}
        ELSE {O(s1, us, Bool(~InError(s1)), "none")}

\* ------------------------------------------------------------ completion
\* OpenStatementState::CompleteOperation: the pending specifiers reach the
\* unit; ACCESS= and FORM= may not change on a unit that was already open
OpenCompleteOperation(s, us) ==
    LET u == us[s.unit]
        badAccess == s.wasExtant /\ s.oAccess # "none" /\ s.oAccess # u.access
        badForm == s.wasExtant /\ s.oForm # "none" /\ u.isUnformatted # "none"
                     /\ u.isUnformatted # s.oForm
        s1 == [s EXCEPT !.completed = TRUE]
    IN  IF badForm
        THEN SignalError(s1, us,
                 IF u.isUnformatted = "true" THEN "FormattedIoOnUnformattedUnit"
                 ELSE "UnformattedIoOnFormattedUnit", "none")
        ELSE IF badAccess THEN SignalError(s1, us, "GenericError", "none")
        ELSE O(s1,
               [us EXCEPT ![s.unit] =
                   [u EXCEPT
                      !.access = IF s.oAccess = "none" THEN @ ELSE s.oAccess,
                      !.isUnformatted = IF s.oForm = "none" THEN @ ELSE s.oForm,
                      !.mayRead = IF s.oAction = "none" THEN @
                                  ELSE s.oAction # "Write",
                      !.mayWrite = IF s.oAction = "none" THEN @
                                   ELSE s.oAction # "Read"]],
               "none", "none")

\* IoStatementState::CompleteOperation, by variant
CompleteOperation(s, us) ==
    IF s.completed THEN O(s, us, "none", "none")
    ELSE IF s.kind = "Open" THEN OpenCompleteOperation(s, us)
    ELSE IF s.kind \in {"Noop", "Erroneous", "InquireNoUnit",
                        "InquireUnconnectedFile", "InquireIOLength"}
    THEN SignalPendingError([s EXCEPT !.completed = TRUE], us, "none")
    ELSE O([s EXCEPT !.completed = TRUE], us, "none", "none")

\* GetNewUnit without the test of open->InError() after completion
GetNewUnitIgnoresError(s, us, kind) ==
    IF s.kind # "Open"
    THEN IF s.kind # "Erroneous"
         THEN {[Crash(s, us) EXCEPT !.ret = "none"]}
         ELSE {O(s, us, "false", "none")}
    ELSE LET o == IF ~InError(s) THEN CompleteOperation(s, us)
                  ELSE O(s, us, "none", "none")
         IN  IF o.crash # "none" THEN {o}
             ELSE IF kind \in {1, 2, 4, 8}
             THEN {Ret(o, "true")}
             ELSE {SignalError(o.s, o.units, "GenericError", "true")}

\* GetNewUnit: kind is the INTEGER kind of the caller's variable; the
\* outcome's `out` is the number stored in it, NoUnit when it is left alone
GetNewUnit(s, us, kind) ==
    IF s.kind # "Open"
    THEN IF s.kind # "Erroneous"
         THEN {[Crash(s, us) EXCEPT !.ret = "none"]}
         ELSE {O(s, us, "false", "none")}
    ELSE LET o == IF ~InError(s) THEN CompleteOperation(s, us)
                  ELSE O(s, us, "none", "none")
         IN  IF o.crash # "none" THEN {o}
             ELSE IF InError(o.s) THEN {Ret(o, "false")}
             ELSE IF kind \in {1, 2, 4, 8}
             THEN {Ret(o, "true")}
             ELSE {SignalError(o.s, o.units, "GenericError", "true")}

\* The number GetNewUnit stores in the caller's variable
NewUnitStored(s, o, kind) ==
    IF s.kind = "Open" /\ o.crash = "none" /\ o.ret = "true" /\ kind \in {1, 2, 4, 8}
    THEN s.unit ELSE NoUnit

\* get_if<FormattedIoStatementState<DIR>>
IsFormatted(s, dir) ==
    s.kind \in {"ExternalFormatted", "InternalFormatted", "ChildFormatted",
                "ExternalList", "InternalList", "ChildList"} /\ s.dir = dir

\* GetSize
GetSize(s, us) ==
    LET o == IF ~InError(s) THEN CompleteOperation(s, us)
             ELSE O(s, us, "none", "none")
    IN  IF o.crash # "none" THEN {o}
        ELSE IF IsFormatted(o.s, "Input") THEN {Ret(o, "size")}
        ELSE IF o.s.kind # "Erroneous" THEN {Crash(o.s, o.units)}
        ELSE {Ret(o, "0")}

\* GetIoLength
GetIoLength(s, us) ==
    LET o == IF ~InError(s) THEN CompleteOperation(s, us)
             ELSE O(s, us, "none", "none")
    IN  IF o.crash # "none" THEN {o}
        ELSE IF o.s.kind = "InquireIOLength" THEN {Ret(o, "size")}
        ELSE IF o.s.kind # "Erroneous" THEN {Crash(o.s, o.units)}
        ELSE {Ret(o, "0")}

\* GetIoMsg
GetIoMsg(s, us) ==
    LET o == IF ~InError(s) THEN CompleteOperation(s, us)
             ELSE O(s, us, "none", "none")
    IN  IF o.crash # "none" THEN {o}
        ELSE {Ret(o, IF InError(o.s) THEN "msg" ELSE "none")}

\* ------------------------------------------------------ data transfers
\* IoStatementState::CheckFormattedStmtType and the typed transfers
\* (OutputInteger32 and the like, InputInteger and the like)
FormattedTransfer(s, us, dir) ==
    IF IsFormatted(s, dir) THEN {O(s, us, Bool(~InError(s)), "none")}
    ELSE IF ~InError(s) THEN {Crash(s, us)}
    ELSE {O(s, us, "false", "none")}

\* OutputUnformattedBlock
OutputUnformattedBlock(s, us) ==
    IF s.kind = "ExternalUnformatted" /\ s.dir = "Output"
    THEN {O(s, us, Bool(~InError(s)), "none")}
    ELSE IF s.kind = "InquireIOLength" THEN {O(s, us, "true", "none")}
    ELSE IF s.kind # "Erroneous" THEN {Crash(s, us)}
    ELSE {O(s, us, "false", "none")}

\* InputUnformattedBlock
InputUnformattedBlock(s, us) ==
    IF InError(s) THEN {O(s, us, "false", "none")}
    ELSE IF s.kind = "ExternalUnformatted" /\ s.dir = "Input"
    THEN {O(s, us, "true", "none")}
    ELSE IF s.kind # "Erroneous" THEN {Crash(s, us)}
    ELSE {O(s, us, "false", "none")}

\* ------------------------------------------------------- EndIoStatement
\* What ending a statement of each variant does to its unit
EndUnit(s, us) ==
    IF s.kind = "Close" THEN [us EXCEPT ![s.unit] = Unconnected]
    ELSE IF s.kind = "Misc" /\ s.which = "Backspace" /\ ~InError(s)
    THEN [us EXCEPT ![s.unit].recordLength = TRUE]
    ELSE us

\* IoStatementState::EndIoStatement: completes the operation, signals a
\* pending error and returns the status
EndIoStatement(s, us) ==
    LET o == CompleteOperation(s, us)
        o2 == IF o.crash # "none" THEN o
              ELSE SignalPendingError(o.s, o.units, "none")
    IN  IF o2.crash # "none" THEN {o2}
        ELSE {O(o2.s, EndUnit(o2.s, o2.units), o2.s.ioStat, "none")}

\* -------------------------------------------------------- Begin calls
\* The outcome of a Begin call: the cookie returned and the registry after it
B(cookie, us) == [cookie |-> cookie, units |-> us]

\* NoopUnit forgetting the status it was given: the statement remembers that
\* its Begin detected it but holds nothing pending
NoopUnitDropsStatus(unitNumber, iostat) ==
    [NewStmt("Noop", NoUnit, "none") EXCEPT !.begun = iostat, !.detected = iostat]

\* NoopUnit
NoopUnit(unitNumber, iostat) ==
    IF iostat # "Ok"
    THEN SetPendingError(NewStmt("Noop", NoUnit, "none"), iostat)
    ELSE NewStmt("Noop", NoUnit, "none")

\* ErroneousIoStatementState, begun on the unit or (unit = NoUnit) on its child
Erroneous(iostat, unit, viaChild) ==
    [SetPendingError(NewStmt("Erroneous", unit, "none"), iostat)
        EXCEPT !.viaChild = viaChild]

\* GetOrCreateUnit leaving the error cookie null when the unit is not found
GetOrCreateUnitNullCookie(us, unitNumber, direction, isUnformatted) ==
    LET r == LookUpOrCreateAnonymous(us, unitNumber, direction, isUnformatted)
    IN  [unit |-> r.unit, units |-> r.units, errorCookie |-> NullCookie]

\* GetOrCreateUnit applying the requested formatting to a unit it found
GetOrCreateUnitResetsFormatting(us, unitNumber, direction, isUnformatted) ==
    LET r == LookUpOrCreateAnonymous(us, unitNumber, direction, isUnformatted)
    IN  IF r.unit # NoUnit
        THEN [unit |-> r.unit,
              units |-> IF isUnformatted = "none" THEN r.units
                        ELSE [r.units EXCEPT ![r.unit].isUnformatted = isUnformatted],
              errorCookie |-> NullCookie]
        ELSE [unit |-> NoUnit, units |-> r.units,
              errorCookie |-> NoopUnit(unitNumber, "BadUnitNumber")]

\* GetOrCreateUnit applying the requested direction to a unit it found
GetOrCreateUnitResetsDirection(us, unitNumber, direction, isUnformatted) ==
    LET r == LookUpOrCreateAnonymous(us, unitNumber, direction, isUnformatted)
    IN  IF r.unit # NoUnit
        THEN [unit |-> r.unit,
              units |-> [r.units EXCEPT ![r.unit].direction = direction],
              errorCookie |-> NullCookie]
        ELSE [unit |-> NoUnit, units |-> r.units,
              errorCookie |-> NoopUnit(unitNumber, "BadUnitNumber")]

\* GetOrCreateUnit: the unit found or created, or the no-op cookie
GetOrCreateUnit(us, unitNumber, direction, isUnformatted) ==
    LET r == LookUpOrCreateAnonymous(us, unitNumber, direction, isUnformatted)
    IN  IF r.unit # NoUnit
        THEN [unit |-> r.unit, units |-> r.units, errorCookie |-> NullCookie]
        ELSE [unit |-> NoUnit, units |-> r.units,
              errorCookie |-> NoopUnit(unitNumber, "BadUnitNumber")]

\* The statement in whose defined-I/O callback the child context of a unit runs
Parent(stk) == stk[1]

\* ChildIo::CheckFormattingAndDirection
CheckFormattingAndDirection(parent, unformatted, dir) ==
    LET parentIsUnformatted == parent.kind \in {"ExternalUnformatted", "ChildUnformatted"}
    IN  IF unformatted # parentIsUnformatted
        THEN IF unformatted THEN "UnformattedChildOnFormattedParent"
             ELSE "FormattedChildOnUnformattedParent"
        ELSE IF parent.dir # dir
        THEN IF parent.dir = "Input" THEN "ChildOutputToInputParent"
             ELSE "ChildInputFromOutputParent"
        ELSE "Ok"

\* ExternalFileUnit::SetDirection: the direction of a connection is set once;
\* a later request for the other direction leaves it and may be refused
SetDirection(us, u, dir) ==
    IF us[u].direction = "none"
    THEN {[iostat |-> "Ok", units |-> [us EXCEPT ![u].direction = dir]]}
    ELSE IF us[u].direction = dir
    THEN {[iostat |-> "Ok", units |-> us]}
    ELSE {[iostat |-> "Ok", units |-> us],
          [iostat |-> "DirectionConflict", units |-> us]}

\* The default-unit sentinel resolved to unit 6 whatever the direction
ResolveDefaultAlwaysOutput(unitNumber, dir) ==
    IF unitNumber = DefaultUnit THEN 6 ELSE unitNumber

\* The default-unit sentinel resolves to unit 5 for input and 6 for output
ResolveDefault(unitNumber, dir) ==
    IF unitNumber = DefaultUnit THEN (IF dir = "Input" THEN 5 ELSE 6)
    ELSE unitNumber

\* BeginExternalListIO without the test for a direct-access unit
BeginExternalListIONoDirectCheck(us, stk, unitNumber0, dir) ==
    LET unitNumber == ResolveDefault(unitNumber0, dir)
        g == GetOrCreateUnit(us, unitNumber, dir, "false")
        u == g.unit
        us1 == IF g.units[u].isUnformatted = "none"
               THEN [g.units EXCEPT ![u].isUnformatted = "false"] ELSE g.units
        iostat0 == IF us1[u].isUnformatted = "true"
                   THEN "FormattedIoOnUnformattedUnit" ELSE "Ok"
    IN  IF u = NoUnit THEN {B(g.errorCookie, g.units)}
        ELSE IF GetChildIo(us1, u)
        THEN LET iostat == IF iostat0 = "Ok"
                           THEN CheckFormattingAndDirection(Parent(stk), FALSE, dir)
                           ELSE iostat0
             IN  IF iostat = "Ok"
                 THEN {B([NewStmt("ChildList", u, dir) EXCEPT !.viaChild = TRUE], us1)}
                 ELSE {B(Erroneous(iostat, NoUnit, TRUE), us1)}
        ELSE IF iostat0 # "Ok" THEN {B(Erroneous(iostat0, u, FALSE), us1)}
             ELSE {IF d.iostat = "Ok"
                   THEN B(NewStmt("ExternalList", u, dir), d.units)
                   ELSE B(Erroneous(d.iostat, u, FALSE), d.units)
                   : d \in SetDirection(us1, u, dir)}

\* BeginExternalListIO testing for a direct-access unit before it tests the
\* unit's formatting
BeginExternalListIODirectFirst(us, stk, unitNumber0, dir) ==
    LET unitNumber == ResolveDefault(unitNumber0, dir)
        g == GetOrCreateUnit(us, unitNumber, dir, "false")
        u == g.unit
        us1 == IF g.units[u].isUnformatted = "none"
               THEN [g.units EXCEPT ![u].isUnformatted = "false"] ELSE g.units
        iostat0 == IF us1[u].isUnformatted = "true"
                   THEN "FormattedIoOnUnformattedUnit" ELSE "Ok"
    IN  IF u = NoUnit THEN {B(g.errorCookie, g.units)}
        ELSE IF GetChildIo(us1, u)
        THEN LET iostat == IF iostat0 = "Ok"
                           THEN CheckFormattingAndDirection(Parent(stk), FALSE, dir)
                           ELSE iostat0
             IN  IF iostat = "Ok"
                 THEN {B([NewStmt("ChildList", u, dir) EXCEPT !.viaChild = TRUE], us1)}
                 ELSE {B(Erroneous(iostat, NoUnit, TRUE), us1)}
        ELSE LET iostat1 == IF us1[u].access = "Direct"
                            THEN "ListIoOnDirectAccessUnit" ELSE iostat0
             IN  IF iostat1 # "Ok" THEN {B(Erroneous(iostat1, u, FALSE), us1)}
                 ELSE {IF d.iostat = "Ok"
                       THEN B(NewStmt("ExternalList", u, dir), d.units)
                       ELSE B(Erroneous(d.iostat, u, FALSE), d.units)
                       : d \in SetDirection(us1, u, dir)}

\* BeginExternalListIO
BeginExternalListIO(us, stk, unitNumber0, dir) ==
    LET unitNumber == ResolveDefault(unitNumber0, dir)
        g == GetOrCreateUnit(us, unitNumber, dir, "false")
        u == g.unit
        us1 == IF g.units[u].isUnformatted = "none"
               THEN [g.units EXCEPT ![u].isUnformatted = "false"] ELSE g.units
        iostat0 == IF us1[u].isUnformatted = "true"
                   THEN "FormattedIoOnUnformattedUnit" ELSE "Ok"
    IN  IF u = NoUnit THEN {B(g.errorCookie, g.units)}
        ELSE IF GetChildIo(us1, u)
        THEN LET iostat == IF iostat0 = "Ok"
                           THEN CheckFormattingAndDirection(Parent(stk), FALSE, dir)
                           ELSE iostat0
             IN  IF iostat = "Ok"
                 THEN {B([NewStmt("ChildList", u, dir) EXCEPT !.viaChild = TRUE], us1)}
                 ELSE {B(Erroneous(iostat, NoUnit, TRUE), us1)}
        ELSE LET iostat1 == IF iostat0 = "Ok" /\ us1[u].access = "Direct"
                            THEN "ListIoOnDirectAccessUnit" ELSE iostat0
             IN  IF iostat1 # "Ok" THEN {B(Erroneous(iostat1, u, FALSE), us1)}
                 ELSE {IF d.iostat = "Ok"
                       THEN B(NewStmt("ExternalList", u, dir), d.units)
                       ELSE B(Erroneous(d.iostat, u, FALSE), d.units)
                       : d \in SetDirection(us1, u, dir)}

\* BeginExternalFormattedIO without the test of the unit's formatting
BeginExternalFormattedIONoFormCheck(us, stk, unitNumber0, dir) ==
    LET unitNumber == ResolveDefault(unitNumber0, dir)
        g == GetOrCreateUnit(us, unitNumber, dir, "false")
        u == g.unit
        us1 == IF g.units[u].isUnformatted = "none"
               THEN [g.units EXCEPT ![u].isUnformatted = "false"] ELSE g.units
    IN  IF u = NoUnit THEN {B(g.errorCookie, g.units)}
        ELSE IF GetChildIo(us1, u)
        THEN LET iostat == CheckFormattingAndDirection(Parent(stk), FALSE, dir)
             IN  IF iostat = "Ok"
                 THEN {B([NewStmt("ChildFormatted", u, dir) EXCEPT !.viaChild = TRUE], us1)}
                 ELSE {B(Erroneous(iostat, NoUnit, TRUE), us1)}
        ELSE {IF d.iostat = "Ok"
              THEN B(NewStmt("ExternalFormatted", u, dir), d.units)
              ELSE B(Erroneous(d.iostat, u, FALSE), d.units)
              : d \in SetDirection(us1, u, dir)}

\* BeginExternalFormattedIO
BeginExternalFormattedIO(us, stk, unitNumber0, dir) ==
    LET unitNumber == ResolveDefault(unitNumber0, dir)
        g == GetOrCreateUnit(us, unitNumber, dir, "false")
        u == g.unit
        us1 == IF g.units[u].isUnformatted = "none"
               THEN [g.units EXCEPT ![u].isUnformatted = "false"] ELSE g.units
        iostat0 == IF us1[u].isUnformatted = "true"
                   THEN "FormattedIoOnUnformattedUnit" ELSE "Ok"
    IN  IF u = NoUnit THEN {B(g.errorCookie, g.units)}
        ELSE IF GetChildIo(us1, u)
        THEN LET iostat == IF iostat0 = "Ok"
                           THEN CheckFormattingAndDirection(Parent(stk), FALSE, dir)
                           ELSE iostat0
             IN  IF iostat = "Ok"
                 THEN {B([NewStmt("ChildFormatted", u, dir) EXCEPT !.viaChild = TRUE], us1)}
                 ELSE {B(Erroneous(iostat, NoUnit, TRUE), us1)}
        ELSE IF iostat0 # "Ok" THEN {B(Erroneous(iostat0, u, FALSE), us1)}
             ELSE {IF d.iostat = "Ok"
                   THEN B(NewStmt("ExternalFormatted", u, dir), d.units)
                   ELSE B(Erroneous(d.iostat, u, FALSE), d.units)
                   : d \in SetDirection(us1, u, dir)}

\* BeginUnformattedIO
BeginUnformattedIO(us, stk, unitNumber, dir) ==
    LET g == GetOrCreateUnit(us, unitNumber, dir, "true")
        u == g.unit
        us1 == IF g.units[u].isUnformatted = "none"
               THEN [g.units EXCEPT ![u].isUnformatted = "true"] ELSE g.units
        iostat0 == IF us1[u].isUnformatted # "true"
                   THEN "UnformattedIoOnFormattedUnit" ELSE "Ok"
    IN  IF u = NoUnit THEN {B(g.errorCookie, g.units)}
        ELSE IF GetChildIo(us1, u)
        THEN LET iostat == IF iostat0 = "Ok"
                           THEN CheckFormattingAndDirection(Parent(stk), TRUE, dir)
                           ELSE iostat0
             IN  IF iostat = "Ok"
                 THEN {B([NewStmt("ChildUnformatted", u, dir) EXCEPT !.viaChild = TRUE], us1)}
                 ELSE {B(Erroneous(iostat, NoUnit, TRUE), us1)}
        ELSE IF iostat0 # "Ok" THEN {B(Erroneous(iostat0, u, FALSE), us1)}
             ELSE {IF d.iostat = "Ok"
                   THEN B(NewStmt("ExternalUnformatted", u, dir),
                          IF dir = "Output" /\ d.units[u].access = "Sequential"
                          THEN [d.units EXCEPT ![u].recordLength = FALSE]
                          ELSE d.units)
                   ELSE B(Erroneous(d.iostat, u, FALSE), d.units)
                   : d \in SetDirection(us1, u, dir)}

\* BeginInternalArrayListIO and BeginInternalListIO
BeginInternalListIO(us, dir) == {B(NewStmt("InternalList", NoUnit, dir), us)}

\* BeginInternalArrayFormattedIO and BeginInternalFormattedIO
BeginInternalFormattedIO(us, dir) == {B(NewStmt("InternalFormatted", NoUnit, dir), us)}

\* A miscellaneous statement (Wait, Flush, Backspace, Rewind, Endfile)
Misc(which, unit, viaChild) ==
    [NewStmt("Misc", unit, "none") EXCEPT !.which = which, !.viaChild = viaChild]

\* BeginOpenUnit
BeginOpenUnit(us, unitNumber) ==
    LET r == LookUpOrCreate(us, unitNumber)
    IN  IF r.unit # NoUnit
        THEN IF GetChildIo(r.units, r.unit)
             THEN {B(Erroneous("BadOpOnChildUnit", NoUnit, TRUE), r.units)}
             ELSE {B([NewStmt("Open", r.unit, "none") EXCEPT !.wasExtant = r.wasExtant],
                     r.units)}
        ELSE {B(NoopUnit(unitNumber, "BadUnitNumber"), r.units)}

\* BeginOpenNewUnit handing out a number whether or not it is in use
BeginOpenNewUnitReusesNumber(us) ==
    {B(NewStmt("Open", n, "none"), [us EXCEPT ![n] = NewUnitRec])
        : n \in NewUnitNumbers}

\* ExternalFileUnit::NewUnit and BeginOpenNewUnit
BeginOpenNewUnit(us) ==
    {B(NewStmt("Open", n, "none"), [us EXCEPT ![n] = NewUnitRec])
        : n \in {m \in NewUnitNumbers : ~us[m].connected}}

\* ExternalFileUnit::Wait: id 0 waits for all, a known id is removed
UnitWait(us, u, id) ==
    IF id = 0 THEN [ok |-> TRUE, units |-> [us EXCEPT ![u].asyncIds = {}]]
    ELSE IF id \in us[u].asyncIds
    THEN [ok |-> TRUE, units |-> [us EXCEPT ![u].asyncIds = @ \ {id}]]
    ELSE [ok |-> FALSE, units |-> us]

\* BeginWait taking every wait on an unconnected unit for an error
BeginWaitIgnoresId(us, unitNumber, id) ==
    LET u == LookUp(us, unitNumber)
        w == UnitWait(us, u, id)
    IN  IF u # NoUnit
        THEN IF w.ok THEN {B(Misc("Wait", u, FALSE), w.units)}
             ELSE {B(Erroneous("BadWaitId", u, FALSE), w.units)}
        ELSE {B(NoopUnit(unitNumber, "BadWaitUnit"), us)}

\* BeginWait with one status for every wait it refuses
BeginWaitOneStatus(us, unitNumber, id) ==
    LET u == LookUp(us, unitNumber)
        w == UnitWait(us, u, id)
    IN  IF u # NoUnit
        THEN IF w.ok THEN {B(Misc("Wait", u, FALSE), w.units)}
             ELSE {B(Erroneous("BadWaitUnit", u, FALSE), w.units)}
        ELSE {B(NoopUnit(unitNumber, IF id = 0 THEN "Ok" ELSE "BadWaitUnit"), us)}

\* BeginWait
BeginWait(us, unitNumber, id) ==
    LET u == LookUp(us, unitNumber)
        w == UnitWait(us, u, id)
    IN  IF u # NoUnit
        THEN IF w.ok THEN {B(Misc("Wait", u, FALSE), w.units)}
             ELSE {B(Erroneous("BadWaitId", u, FALSE), w.units)}
        ELSE {B(NoopUnit(unitNumber, IF id = 0 THEN "Ok" ELSE "BadWaitUnit"), us)}

\* BeginWaitAll
BeginWaitAll(us, unitNumber) == BeginWait(us, unitNumber, 0)

\* BeginClose without the test for an active child context
BeginCloseNoChildCheck(us, unitNumber) ==
    LET u == LookUp(us, unitNumber)
    IN  IF u # NoUnit THEN {B(NewStmt("Close", u, "none"), us)}
        ELSE {B(NoopUnit(unitNumber, "Ok"), us)}

\* BeginClose
BeginClose(us, unitNumber) ==
    LET u == LookUp(us, unitNumber)
    IN  IF u # NoUnit /\ GetChildIo(us, u)
        THEN {B(Erroneous("BadOpOnChildUnit", NoUnit, TRUE), us)}
        ELSE IF u # NoUnit THEN {B(NewStmt("Close", u, "none"), us)}
        ELSE {B(NoopUnit(unitNumber, "Ok"), us)}

\* BeginFlush taking every unit that is not connected for a bad unit
BeginFlushBadUnit(us, unitNumber) ==
    LET u == LookUp(us, unitNumber)
    IN  IF u # NoUnit
        THEN IF GetChildIo(us, u) THEN {B(Misc("Flush", u, TRUE), us)}
             ELSE {B(Misc("Flush", u, FALSE), us)}
        ELSE {B(NoopUnit(unitNumber, "BadFlushUnit"), us)}

\* BeginFlush
BeginFlush(us, unitNumber) ==
    LET u == LookUp(us, unitNumber)
    IN  IF u # NoUnit
        THEN IF GetChildIo(us, u) THEN {B(Misc("Flush", u, TRUE), us)}
             ELSE {B(Misc("Flush", u, FALSE), us)}
        ELSE {B(NoopUnit(unitNumber,
                         IF unitNumber >= 0 THEN "Ok" ELSE "BadFlushUnit"), us)}

\* BeginBackspace resolving its unit with the creating lookup
BeginBackspaceCreates(us, unitNumber) ==
    LET g == GetOrCreateUnit(us, unitNumber, "Input", "none")
    IN  IF g.unit # NoUnit
        THEN IF GetChildIo(g.units, g.unit)
             THEN {B(Erroneous("BadOpOnChildUnit", NoUnit, TRUE), g.units)}
             ELSE {B(Misc("Backspace", g.unit, FALSE), g.units)}
        ELSE {B(NoopUnit(unitNumber, "BadBackspaceUnit"), g.units)}

\* BeginBackspace
BeginBackspace(us, unitNumber) ==
    LET u == LookUp(us, unitNumber)
    IN  IF u # NoUnit
        THEN IF GetChildIo(us, u)
             THEN {B(Erroneous("BadOpOnChildUnit", NoUnit, TRUE), us)}
             ELSE {B(Misc("Backspace", u, FALSE), us)}
        ELSE {B(NoopUnit(unitNumber, "BadBackspaceUnit"), us)}

\* BeginEndfile
BeginEndfile(us, unitNumber) ==
    LET g == GetOrCreateUnit(us, unitNumber, "Output", "none")
    IN  IF g.unit # NoUnit
        THEN IF GetChildIo(g.units, g.unit)
             THEN {B(Erroneous("BadOpOnChildUnit", NoUnit, TRUE), g.units)}
             ELSE {B(Misc("Endfile", g.unit, FALSE), g.units)}
        ELSE {B(g.errorCookie, g.units)}

\* BeginRewind
BeginRewind(us, unitNumber) ==
    LET g == GetOrCreateUnit(us, unitNumber, "Input", "none")
    IN  IF g.unit # NoUnit
        THEN IF GetChildIo(g.units, g.unit)
             THEN {B(Erroneous("BadOpOnChildUnit", NoUnit, TRUE), g.units)}
             ELSE {B(Misc("Rewind", g.unit, FALSE), g.units)}
        ELSE {B(g.errorCookie, g.units)}

\* BeginInquireUnit
BeginInquireUnit(us, unitNumber) ==
    LET u == LookUp(us, unitNumber)
    IN  IF u # NoUnit
        THEN IF GetChildIo(us, u)
             THEN {B([NewStmt("InquireUnit", u, "none") EXCEPT !.viaChild = TRUE], us)}
             ELSE {B(NewStmt("InquireUnit", u, "none"), us)}
        ELSE {B(NewStmt("InquireNoUnit", NoUnit, "none"), us)}

\* BeginInquireFile: the path names the file of unit `unitNumber`, or (NoUnit
\* or an unconnected number) a file connected to no unit
BeginInquireFile(us, unitNumber) ==
    LET u == LookUp(us, unitNumber)
    IN  IF u # NoUnit
        THEN IF GetChildIo(us, u)
             THEN {B([NewStmt("InquireUnit", u, "none") EXCEPT !.viaChild = TRUE], us)}
             ELSE {B(NewStmt("InquireUnit", u, "none"), us)}
        ELSE {B(NewStmt("InquireUnconnectedFile", NoUnit, "none"), us)}

\* BeginInquireIoLength
BeginInquireIoLength(us) == {B(NewStmt("InquireIOLength", NoUnit, "none"), us)}

\* ------------------------------------------------------------- actions
Directions == {"Input", "Output"}
WaitIds == 0..(MaxAsyncId + 1)
EnableChoices == {{"IoStat"}, Channels}

\* The ID= of a WAIT as it is recorded with the call
IdName(id) == "id=" \o <<"0", "1", "2", "3", "4", "5", "6", "7", "8", "9">>[id + 1]

\* The run may make one more counted call
MayCall == crashed = "none" /\ nstmts + nsets + ngets < MaxCalls

Called(op, unit, arg, ret, out) ==
    [op |-> op, unit |-> unit, arg |-> arg, ret |-> ret, out |-> out]

\* A Begin call: made with no statement in progress, or from the defined-I/O
\* callback of the transfer in progress
Begin(op, unit, arg, outs) ==
    /\ MayCall
    /\ nstmts < MaxStmts
    /\ stack = <<>> \/ (Len(stack) = 1 /\ Top.callback)
    /\ \E b \in outs :
        /\ units' = b.units
        /\ stack' = IF b.cookie.kind = "null" THEN stack ELSE Append(stack, b.cookie)
        /\ last' = Called(op, unit, arg, b.cookie.kind, NoUnit)
    /\ nstmts' = nstmts + 1
    /\ UNCHANGED <<crashed, nsets, ngets>>
    /\ UNCHANGED others

\* A call on the cookie of the innermost statement; `isSet` for the Set*
\* calls, counted apart from the other calls
Call(op, arg, outs, isSet) ==
    /\ MayCall
    /\ stack # <<>>
    /\ ~Top.callback
    /\ IF isSet THEN nsets < MaxSets ELSE ngets < MaxGets
    /\ \E o \in outs :
        /\ units' = o.units
        /\ stack' = [stack EXCEPT ![Len(stack)] = o.s]
        /\ crashed' = o.crash
        /\ last' = Called(op, NoUnit, IF o.crash = "none" THEN arg ELSE "none",
                       o.ret, NoUnit)
    /\ nsets' = IF isSet THEN nsets + 1 ELSE nsets
    /\ ngets' = IF isSet THEN ngets ELSE ngets + 1
    /\ UNCHANGED nstmts
    /\ UNCHANGED others

\* The keywords a setter is tried with: those given and one in no table
Keywords(table) == table \cup {"BOGUS"}

BeginInternalListOutputA == Begin("BeginInternalListOutput", NoUnit, "none", BeginInternalListIO(units, "Output"))
BeginInternalListInputA == Begin("BeginInternalListInput", NoUnit, "none", BeginInternalListIO(units, "Input"))
BeginInternalFormattedOutputA == Begin("BeginInternalFormattedOutput", NoUnit, "none", BeginInternalFormattedIO(units, "Output"))
BeginInternalFormattedInputA == Begin("BeginInternalFormattedInput", NoUnit, "none", BeginInternalFormattedIO(units, "Input"))

BeginExternalListOutputA ==
    \E n \in UnitArgs : Begin("BeginExternalListOutput", n, "none", BeginExternalListIO(units, stack, n, "Output"))
BeginExternalListInputA ==
    \E n \in UnitArgs : Begin("BeginExternalListInput", n, "none", BeginExternalListIO(units, stack, n, "Input"))
BeginExternalFormattedOutputA ==
    \E n \in UnitArgs : Begin("BeginExternalFormattedOutput", n, "none", BeginExternalFormattedIO(units, stack, n, "Output"))
BeginExternalFormattedInputA ==
    \E n \in UnitArgs : Begin("BeginExternalFormattedInput", n, "none", BeginExternalFormattedIO(units, stack, n, "Input"))
BeginUnformattedOutputA ==
    \E n \in UnitArgs : Begin("BeginUnformattedOutput", n, "none", BeginUnformattedIO(units, stack, n, "Output"))
BeginUnformattedInputA ==
    \E n \in UnitArgs : Begin("BeginUnformattedInput", n, "none", BeginUnformattedIO(units, stack, n, "Input"))
BeginOpenUnitA ==
    \E n \in UnitArgs : Begin("BeginOpenUnit", n, "none", BeginOpenUnit(units, n))
BeginOpenNewUnitA == Begin("BeginOpenNewUnit", NoUnit, "none", BeginOpenNewUnit(units))
BeginWaitA ==
    \E n \in UnitArgs, id \in WaitIds :
        Begin("BeginWait", n, IdName(id), BeginWait(units, n, id))
BeginWaitAllA ==
    \E n \in UnitArgs : Begin("BeginWaitAll", n, "none", BeginWaitAll(units, n))
BeginCloseA ==
    \E n \in UnitArgs : Begin("BeginClose", n, "none", BeginClose(units, n))
BeginFlushA ==
    \E n \in UnitArgs : Begin("BeginFlush", n, "none", BeginFlush(units, n))
BeginBackspaceA ==
    \E n \in UnitArgs : Begin("BeginBackspace", n, "none", BeginBackspace(units, n))
BeginEndfileA ==
    \E n \in UnitArgs : Begin("BeginEndfile", n, "none", BeginEndfile(units, n))
BeginRewindA ==
    \E n \in UnitArgs : Begin("BeginRewind", n, "none", BeginRewind(units, n))
BeginInquireUnitA ==
    \E n \in UnitArgs : Begin("BeginInquireUnit", n, "none", BeginInquireUnit(units, n))
BeginInquireFileA ==
    \E n \in UnitNumbers \cup {NoUnit} :
        Begin("BeginInquireFile", n, "none", BeginInquireFile(units, n))
BeginInquireIoLengthA == Begin("BeginInquireIoLength", NoUnit, "none", BeginInquireIoLength(units))

EnableHandlersA ==
    \E c \in EnableChoices : Call("EnableHandlers", "none", EnableHandlers(Top, units, c), FALSE)
SetAdvanceA ==
    \E k \in Keywords({"YES", "NO"}) : Call("SetAdvance", k, SetAdvance(Top, units, k), TRUE)
SetBlankA ==
    \E k \in Keywords({"NULL", "ZERO"}) : Call("SetBlank", k, SetBlank(Top, units, k), TRUE)
SetDecimalA ==
    \E k \in Keywords({"COMMA", "POINT"}) : Call("SetDecimal", k, SetDecimal(Top, units, k), TRUE)
SetDelimA ==
    \E k \in Keywords({"APOSTROPHE", "QUOTE", "NONE"}) : Call("SetDelim", k, SetDelim(Top, units, k), TRUE)
SetPadA ==
    \E k \in Keywords({"YES", "NO"}) : Call("SetPad", k, SetPad(Top, units, k), TRUE)
SetPosA == \E pos \in 0..1 : Call("SetPos", IF pos < 1 THEN "bad" ELSE "good", SetPos(Top, units, pos), TRUE)
SetRecA == \E rec \in 0..1 : Call("SetRec", IF rec < 1 THEN "bad" ELSE "good", SetRec(Top, units, rec), TRUE)
SetRoundA ==
    \E k \in Keywords({"UP", "PROCESSOR_DEFINED"}) : Call("SetRound", k, SetRound(Top, units, k), TRUE)
SetSignA ==
    \E k \in Keywords({"PLUS", "SUPPRESS", "PROCESSOR_DEFINED"}) : Call("SetSign", k, SetSign(Top, units, k), TRUE)
SetAccessA ==
    \E k \in Keywords({"SEQUENTIAL", "DIRECT", "STREAM", "APPEND"}) : Call("SetAccess", k, SetAccess(Top, units, k), TRUE)
SetActionA ==
    \E k \in Keywords({"READ", "WRITE", "READWRITE"}) : Call("SetAction", k, SetAction(Top, units, k), TRUE)
SetAsynchronousA ==
    \E k \in Keywords({"YES", "NO"}) : Call("SetAsynchronous", k, SetAsynchronous(Top, units, k), TRUE)
SetCarriagecontrolA ==
    \E k \in Keywords({"LIST", "FORTRAN"}) : Call("SetCarriagecontrol", k, SetCarriagecontrol(Top, units, k), TRUE)
SetConvertA ==
    \E k \in Keywords({"NATIVE", "SWAP"}) : Call("SetConvert", k, SetConvert(Top, units, k), TRUE)
SetEncodingA ==
    \E k \in Keywords({"UTF-8", "DEFAULT"}) : Call("SetEncoding", k, SetEncoding(Top, units, k), TRUE)
SetFormA ==
    \E k \in Keywords({"FORMATTED", "UNFORMATTED"}) : Call("SetForm", k, SetForm(Top, units, k), TRUE)
SetPositionA ==
    \E k \in Keywords({"ASIS", "REWIND", "APPEND"}) : Call("SetPosition", k, SetPosition(Top, units, k), TRUE)
SetReclA == \E n \in 0..MaxRecl : Call("SetRecl", IF n = 0 THEN "zero" ELSE "positive", SetRecl(Top, units, n), TRUE)
SetStatusA ==
    \E k \in Keywords({"OLD", "REPLACE", "KEEP", "DELETE"}) : Call("SetStatus", k, SetStatus(Top, units, k), TRUE)
SetFileA == Call("SetFile", "none", SetFile(Top, units), TRUE)

\* GetNewUnit, with the number it stores in the caller's variable
GetNewUnitA ==
    \E kind \in {4, 3} :
        /\ MayCall /\ stack # <<>> /\ ~Top.callback
        /\ ngets < MaxGets
        /\ \E o \in GetNewUnit(Top, units, kind) :
            /\ units' = o.units
            /\ stack' = [stack EXCEPT ![Len(stack)] = o.s]
            /\ crashed' = o.crash
            /\ last' = Called("GetNewUnit", NoUnit, IF kind = 4 THEN "kind=4" ELSE "bad kind",
                              o.ret, NewUnitStored(Top, o, kind))
        /\ ngets' = ngets + 1
        /\ UNCHANGED <<nstmts, nsets>>
        /\ UNCHANGED others
GetSizeA == Call("GetSize", "none", GetSize(Top, units), FALSE)
GetIoLengthA == Call("GetIoLength", "none", GetIoLength(Top, units), FALSE)
GetIoMsgA == Call("GetIoMsg", "none", GetIoMsg(Top, units), FALSE)

OutputFormattedA == Call("Output", "none", FormattedTransfer(Top, units, "Output"), FALSE)
InputFormattedA == Call("Input", "none", FormattedTransfer(Top, units, "Input"), FALSE)
OutputUnformattedBlockA == Call("OutputUnformattedBlock", "none", OutputUnformattedBlock(Top, units), FALSE)
InputUnformattedBlockA == Call("InputUnformattedBlock", "none", InputUnformattedBlock(Top, units), FALSE)

\* OutputDerivedType / InputDerivedType reaching a defined-I/O procedure: the
\* unit gets a child I/O context and the procedure may begin statements
DefinedIoEnter ==
    /\ crashed = "none"
    /\ Len(stack) = 1
    /\ Top.kind \in TransferKinds
    /\ ~Top.callback
    /\ ~InError(Top)
    /\ stack' = [stack EXCEPT ![1].callback = TRUE]
    /\ units' = [units EXCEPT ![Top.unit].child = TRUE]
    /\ last' = Called("DefinedIoEnter", Top.unit, "none", "none", NoUnit)
    /\ UNCHANGED <<crashed, nstmts, nsets, ngets>>
    /\ UNCHANGED others

\* The defined-I/O procedure returns: the child I/O context is popped
DefinedIoReturn ==
    /\ crashed = "none"
    /\ Len(stack) = 1
    /\ Top.callback
    /\ stack' = [stack EXCEPT ![1].callback = FALSE]
    /\ units' = [units EXCEPT ![Top.unit].child = FALSE]
    /\ last' = Called("DefinedIoReturn", Top.unit, "none", "none", NoUnit)
    /\ UNCHANGED <<crashed, nstmts, nsets, ngets>>
    /\ UNCHANGED others

\* EndIoStatement: the statement is destroyed and its status returned
EndIoStatementA ==
    /\ crashed = "none"
    /\ stack # <<>>
    /\ ~Top.callback
    /\ \E o \in EndIoStatement(Top, units) :
        /\ units' = o.units
        /\ crashed' = o.crash
        /\ stack' = IF o.crash = "none" THEN SubSeq(stack, 1, Len(stack) - 1)
                    ELSE [stack EXCEPT ![Len(stack)] = o.s]
        /\ last' = Called("EndIoStatement", Top.unit, Top.kind, o.ret, NoUnit)
    /\ UNCHANGED <<nstmts, nsets, ngets>>
    /\ UNCHANGED others

Next ==
    \/ BeginInternalListOutputA \/ BeginInternalListInputA
    \/ BeginInternalFormattedOutputA \/ BeginInternalFormattedInputA
    \/ BeginExternalListOutputA \/ BeginExternalListInputA
    \/ BeginExternalFormattedOutputA \/ BeginExternalFormattedInputA
    \/ BeginUnformattedOutputA \/ BeginUnformattedInputA
    \/ BeginOpenUnitA \/ BeginOpenNewUnitA
    \/ BeginWaitA \/ BeginWaitAllA
    \/ BeginCloseA \/ BeginFlushA \/ BeginBackspaceA
    \/ BeginEndfileA \/ BeginRewindA
    \/ BeginInquireUnitA \/ BeginInquireFileA \/ BeginInquireIoLengthA
    \/ EnableHandlersA
    \/ SetAdvanceA \/ SetBlankA \/ SetDecimalA \/ SetDelimA \/ SetPadA
    \/ SetPosA \/ SetRecA \/ SetRoundA \/ SetSignA
    \/ SetAccessA \/ SetActionA \/ SetAsynchronousA \/ SetCarriagecontrolA
    \/ SetConvertA \/ SetEncodingA \/ SetFormA \/ SetPositionA
    \/ SetReclA \/ SetStatusA \/ SetFileA
    \/ GetNewUnitA \/ GetSizeA \/ GetIoLengthA \/ GetIoMsgA
    \/ OutputFormattedA \/ InputFormattedA
    \/ OutputUnformattedBlockA \/ InputUnformattedBlockA
    \/ DefinedIoEnter \/ DefinedIoReturn
    \/ EndIoStatementA

Spec == Init /\ [][Next]_vars

\* The calls that decide how units are resolved: every Begin, the ACCESS= and
\* FORM= specifiers of OPEN, which the Begin calls read back from the unit,
\* the defined-I/O callbacks and EndIoStatement
NextUnits ==
    \/ BeginInternalListOutputA \/ BeginInternalListInputA
    \/ BeginInternalFormattedOutputA \/ BeginInternalFormattedInputA
    \/ BeginExternalListOutputA \/ BeginExternalListInputA
    \/ BeginExternalFormattedOutputA \/ BeginExternalFormattedInputA
    \/ BeginUnformattedOutputA \/ BeginUnformattedInputA
    \/ BeginOpenUnitA \/ BeginOpenNewUnitA
    \/ BeginWaitA \/ BeginWaitAllA
    \/ BeginCloseA \/ BeginFlushA \/ BeginBackspaceA
    \/ BeginEndfileA \/ BeginRewindA
    \/ BeginInquireUnitA \/ BeginInquireFileA \/ BeginInquireIoLengthA
    \/ SetAccessA \/ SetFormA
    \/ DefinedIoEnter \/ DefinedIoReturn
    \/ EndIoStatementA

SpecUnits == Init /\ [][NextUnits]_vars

\* ------------------------------------------------------ several threads
\* A Begin entry point run by one of several threads is two steps: the code of
\* the entry point up to its call of BeginIoStatement (the lookup of the unit
\* and every test and assignment on the unit's fields), and BeginIoStatement.

\* unit->BeginIoStatement takes the unit's lock and EndIoStatement drops it;
\* child->BeginIoStatement and New<> take no lock
TakesLock(s) == s.unit # NoUnit /\ ~s.viaChild

\* The statements in progress of the thread whose defined-I/O callback runs
\* the child context of unit u
ParentStack(u) ==
    IF \E t \in Threads : /\ threads[t].stack # <<>>
                          /\ threads[t].stack[1].callback
                          /\ threads[t].stack[1].unit = u
    THEN threads[CHOOSE t \in Threads : /\ threads[t].stack # <<>>
                                        /\ threads[t].stack[1].callback
                                        /\ threads[t].stack[1].unit = u].stack
    ELSE <<>>

\* Thread t runs a Begin entry point up to its call of BeginIoStatement
ThreadBegin(t, op, unit, outs) ==
    /\ crashed = "none"
    /\ nstmts < MaxStmts
    /\ threads[t].begin = NullCookie
    /\ \/ threads[t].stack = <<>>
       \/ Len(threads[t].stack) = 1 /\ threads[t].stack[1].callback
    /\ \E b \in outs :
        /\ units' = b.units
        /\ threads' = [threads EXCEPT ![t].begin = b.cookie]
    /\ last' = Called(op, unit, t, "none", NoUnit)
    /\ nstmts' = nstmts + 1
    /\ UNCHANGED <<stack, crashed, nsets, ngets, lock, eval>>

ThreadBeginExternalListIO ==
    \E t \in Threads, n \in UnitArgs, dir \in {"Input", "Output"} :
        ThreadBegin(t, IF dir = "Input" THEN "BeginExternalListInput"
                       ELSE "BeginExternalListOutput", n,
            BeginExternalListIO(units, ParentStack(ResolveDefault(n, dir)), n, dir))
ThreadBeginExternalFormattedIO ==
    \E t \in Threads, n \in UnitArgs, dir \in {"Input", "Output"} :
        ThreadBegin(t, IF dir = "Input" THEN "BeginExternalFormattedInput"
                       ELSE "BeginExternalFormattedOutput", n,
            BeginExternalFormattedIO(units, ParentStack(ResolveDefault(n, dir)), n, dir))
ThreadBeginUnformattedIO ==
    \E t \in Threads, n \in UnitArgs, dir \in {"Input", "Output"} :
        ThreadBegin(t, IF dir = "Input" THEN "BeginUnformattedInput"
                       ELSE "BeginUnformattedOutput", n,
            BeginUnformattedIO(units, ParentStack(n), n, dir))
ThreadBeginWait ==
    \E t \in Threads, n \in UnitArgs, id \in WaitIds :
        ThreadBegin(t, "BeginWait", n, BeginWait(units, n, id))

\* BeginIoStatement: the statement the entry point decided on is constructed,
\* on the unit once its lock is free, and the entry point returns its cookie
ThreadBeginIoStatement ==
    \E t \in Threads :
        /\ crashed = "none"
        /\ threads[t].begin # NullCookie
        /\ TakesLock(threads[t].begin) => lock[threads[t].begin.unit] = NoThread
        /\ threads' = [threads EXCEPT ![t] =
                          [stack |-> Append(@.stack, @.begin), begin |-> NullCookie]]
        /\ lock' = IF TakesLock(threads[t].begin)
                   THEN [lock EXCEPT ![threads[t].begin.unit] = t] ELSE lock
        /\ last' = Called("BeginIoStatement", threads[t].begin.unit, t,
                          threads[t].begin.kind, NoUnit)
        /\ UNCHANGED <<units, stack, crashed, nstmts, nsets, ngets, eval>>

\* The transfer of thread t reaches a defined-I/O procedure
ThreadDefinedIoEnter ==
    \E t \in Threads :
        /\ crashed = "none"
        /\ threads[t].begin = NullCookie
        /\ Len(threads[t].stack) = 1
        /\ threads[t].stack[1].kind \in TransferKinds
        /\ ~threads[t].stack[1].callback
        /\ ~InError(threads[t].stack[1])
        /\ threads' = [threads EXCEPT ![t].stack[1].callback = TRUE]
        /\ units' = [units EXCEPT ![threads[t].stack[1].unit].child = TRUE]
        /\ last' = Called("DefinedIoEnter", threads[t].stack[1].unit, t, "none", NoUnit)
        /\ UNCHANGED <<stack, crashed, nstmts, nsets, ngets, lock, eval>>

\* The defined-I/O procedure of thread t returns
ThreadDefinedIoReturn ==
    \E t \in Threads :
        /\ crashed = "none"
        /\ threads[t].begin = NullCookie
        /\ Len(threads[t].stack) = 1
        /\ threads[t].stack[1].callback
        /\ threads' = [threads EXCEPT ![t].stack[1].callback = FALSE]
        /\ units' = [units EXCEPT ![threads[t].stack[1].unit].child = FALSE]
        /\ last' = Called("DefinedIoReturn", threads[t].stack[1].unit, t, "none", NoUnit)
        /\ UNCHANGED <<stack, crashed, nstmts, nsets, ngets, lock, eval>>

\* EndIoStatement on the innermost statement of thread t
ThreadEndIoStatement ==
    \E t \in Threads :
        LET stk == threads[t].stack
            s == stk[Len(stk)]
        IN  /\ crashed = "none"
            /\ threads[t].begin = NullCookie
            /\ stk # <<>>
            /\ ~s.callback
            /\ \E o \in EndIoStatement(s, units) :
                /\ units' = o.units
                /\ crashed' = o.crash
                /\ threads' = [threads EXCEPT ![t].stack =
                                  IF o.crash = "none" THEN SubSeq(stk, 1, Len(stk) - 1)
                                  ELSE [stk EXCEPT ![Len(stk)] = o.s]]
                /\ lock' = IF o.crash = "none" /\ TakesLock(s)
                           THEN [lock EXCEPT ![s.unit] = NoThread] ELSE lock
                /\ last' = Called("EndIoStatement", s.unit, t, o.ret, NoUnit)
            /\ UNCHANGED <<stack, nstmts, nsets, ngets, eval>>

NextThreads ==
    \/ ThreadBeginExternalListIO \/ ThreadBeginExternalFormattedIO
    \/ ThreadBeginUnformattedIO \/ ThreadBeginWait
    \/ ThreadBeginIoStatement
    \/ ThreadDefinedIoEnter \/ ThreadDefinedIoReturn
    \/ ThreadEndIoStatement

SpecThreads == Init /\ [][NextThreads]_vars

\* ------------------------------------------------- properties: vocabulary
ListBegins == {"BeginExternalListOutput", "BeginExternalListInput"}
FormattedBegins == {"BeginExternalFormattedOutput", "BeginExternalFormattedInput"}
UnformattedBegins == {"BeginUnformattedOutput", "BeginUnformattedInput"}
TransferBegins == ListBegins \cup FormattedBegins \cup UnformattedBegins
InternalBegins ==
    {"BeginInternalListOutput", "BeginInternalListInput",
     "BeginInternalFormattedOutput", "BeginInternalFormattedInput"}
BeginOps ==
    InternalBegins \cup TransferBegins \cup
    {"BeginOpenUnit", "BeginOpenNewUnit", "BeginWait", "BeginWaitAll",
     "BeginClose", "BeginFlush", "BeginBackspace", "BeginEndfile", "BeginRewind",
     "BeginInquireUnit", "BeginInquireFile", "BeginInquireIoLength"}

\* The direction a transfer Begin asks for
DirOf(op) ==
    IF op \in {"BeginExternalListInput", "BeginExternalFormattedInput",
               "BeginUnformattedInput"}
    THEN "Input" ELSE "Output"

\* The unit number a Begin call looks up for the number it was given
Resolved(op, n) ==
    IF op \in ListBegins \cup FormattedBegins THEN ResolveDefault(n, DirOf(op))
    ELSE n

\* The last call was `op`-like and addressed a unit that is connected now
OnConnected(ops) ==
    /\ last.op \in ops
    /\ IsConnected(units, Resolved(last.op, last.unit))

LastUnit == units[Resolved(last.op, last.unit)]

\* The step is a call of EndIoStatement that returned
EndReturned ==
    /\ stack # <<>>
    /\ last'.op = "EndIoStatement"
    /\ crashed' = "none"
    /\ Len(stack') < Len(stack)

\* ------------------------------------------------- unit numbers in range
\* A 64-bit integer is four 16-bit digits, the most significant first
Limb == 65536
AllOnes == Limb - 1

\* The conversion without sign extension
Int64ZeroExtended(i) == <<0, 0, (i \div Limb) % Limb, i % Limb>>

\* The conversion of an ExternalUnit (a 32-bit int) to std::int64_t
Int64(i) ==
    <<IF i < 0 THEN AllOnes ELSE 0, IF i < 0 THEN AllOnes ELSE 0,
      (i \div Limb) % Limb, i % Limb>>

\* static_cast<ExternalUnit>(unit): the low-order 32 bits, as a signed int
StaticCastExternalUnit(unit) ==
    IF unit[3] >= Limb \div 2 THEN (unit[3] - Limb) * Limb + unit[4]
    ELSE unit[3] * Limb + unit[4]

\* The IoErrorHandler of CheckUnitNumberInRangeImpl
RangeErrorHandler(handleError, ioMsg) ==
    [NewStmt("none", NoUnit, "none") EXCEPT
        !.flags = IF handleError
                  THEN {"IoStat"} \cup (IF ioMsg THEN {"IoMsg"} ELSE {})
                  ELSE {}]

\* CheckUnitNumberInRangeImpl without its test
CheckUnitNumberInRangeImplNoTest(unit, handleError, ioMsg) ==
    O(RangeErrorHandler(handleError, ioMsg), <<>>, "Ok", "none")

\* CheckUnitNumberInRangeImpl: the status returned and the class of the abort
CheckUnitNumberInRangeImpl(unit, handleError, ioMsg) ==
    IF unit # Int64(StaticCastExternalUnit(unit))
    THEN LET o == SignalError(RangeErrorHandler(handleError, ioMsg), <<>>,
                              "UnitOverflow", "none")
         IN  IF o.crash # "none" THEN o ELSE Ret(o, o.s.ioStat)
    ELSE O(RangeErrorHandler(handleError, ioMsg), <<>>, "Ok", "none")

\* CheckUnitNumberInRange64
CheckUnitNumberInRange64(unit, handleError, ioMsg) ==
    CheckUnitNumberInRangeImpl(unit, handleError, ioMsg)

\* 64-bit unit numbers the validator is tried with: around zero, around the
\* ends of the range of ExternalUnit, multiples of 2^32 off a unit number, and
\* the ends of the 64-bit range
Int64Samples ==
    {<<0, 0, 0, 0>>, <<0, 0, 0, 5>>, <<0, 0, 0, 6>>,
     <<AllOnes, AllOnes, AllOnes, AllOnes>>, <<AllOnes, AllOnes, AllOnes, AllOnes - 2>>,
     <<0, 0, 32767, AllOnes>>, <<0, 0, 32768, 0>>,
     <<AllOnes, AllOnes, 32768, 0>>, <<AllOnes, AllOnes, 32767, AllOnes>>,
     <<0, 0, AllOnes, AllOnes>>, <<0, 1, 0, 6>>, <<AllOnes, AllOnes, 0, 5>>,
     <<1, 0, 0, 6>>, <<AllOnes, 0, AllOnes, AllOnes - 2>>,
     <<32767, AllOnes, AllOnes, AllOnes>>, <<32768, 0, 0, 0>>}

\* The 64-bit integer is a value of ExternalUnit: -2^31 .. 2^31 - 1, compared
\* digit by digit
MinExternalUnit == <<AllOnes, AllOnes, 32768, 0>>
MaxExternalUnit == <<0, 0, 32767, AllOnes>>
SignedKey(w) == <<(w[1] + Limb \div 2) % Limb, w[2], w[3], w[4]>>
LessEq(a, b) ==
    \/ a = b
    \/ \E i \in 1..4 : /\ \A j \in 1..(i - 1) : SignedKey(a)[j] = SignedKey(b)[j]
                       /\ SignedKey(a)[i] < SignedKey(b)[i]
Representable(w) == LessEq(MinExternalUnit, w) /\ LessEq(w, MaxExternalUnit)
RangeTag(w) == IF Representable(w) THEN "in range" ELSE "out of range"

\* The validator called by a caller that holds no statement
CheckUnitNumberInRange64A ==
    \E unit \in Int64Samples, handleError \in BOOLEAN, ioMsg \in BOOLEAN :
        /\ crashed = "none"
        /\ stack = <<>>
        /\ LET o == CheckUnitNumberInRange64(unit, handleError, ioMsg)
           IN  /\ crashed' = o.crash
               /\ eval' = [fn |-> "CheckUnitNumberInRange64", unit |-> unit,
                           handleError |-> handleError, ret |-> o.ret]
               /\ last' = Called("CheckUnitNumberInRange64", NoUnit,
                                 RangeTag(unit), o.ret, NoUnit)
        /\ UNCHANGED <<units, stack, nstmts, nsets, ngets, threads, lock>>

\* The Begin entry points that take a unit number
UnitBegins ==
    TransferBegins \cup
    {"BeginOpenUnit", "BeginWaitAll", "BeginClose", "BeginFlush", "BeginBackspace",
     "BeginEndfile", "BeginRewind", "BeginInquireUnit"}

\* What the Begin entry point `op` does when called with unit number n
BeginOn(op, n) ==
    CASE op \in ListBegins -> BeginExternalListIO(units, stack, n, DirOf(op))
      [] op \in FormattedBegins -> BeginExternalFormattedIO(units, stack, n, DirOf(op))
      [] op \in UnformattedBegins -> BeginUnformattedIO(units, stack, n, DirOf(op))
      [] op = "BeginOpenUnit" -> BeginOpenUnit(units, n)
      [] op = "BeginWaitAll" -> BeginWaitAll(units, n)
      [] op = "BeginClose" -> BeginClose(units, n)
      [] op = "BeginFlush" -> BeginFlush(units, n)
      [] op = "BeginBackspace" -> BeginBackspace(units, n)
      [] op = "BeginEndfile" -> BeginEndfile(units, n)
      [] op = "BeginRewind" -> BeginRewind(units, n)
      [] op = "BeginInquireUnit" -> BeginInquireUnit(units, n)

\* The 64-bit unit numbers a caller narrows into a Begin call: those whose
\* narrowed value is a number the registry of the model holds, or negative
WideUnitArgs ==
    {w \in Int64Samples : \/ StaticCastExternalUnit(w) \in UnitNumbers \cup UnitArgs
                          \/ StaticCastExternalUnit(w) < 0}

\* A Begin call by a caller whose unit number is a 64-bit integer: the
\* argument is converted to ExternalUnit on the call
BeginNarrowedA ==
    \E op \in UnitBegins, w \in WideUnitArgs :
        /\ MayCall
        /\ nstmts < MaxStmts
        /\ stack = <<>>
        /\ \E b \in BeginOn(op, StaticCastExternalUnit(w)) :
            /\ units' = b.units
            /\ stack' = IF b.cookie.kind = "null" THEN stack ELSE Append(stack, b.cookie)
            /\ last' = Called(op, StaticCastExternalUnit(w), RangeTag(w),
                              b.cookie.kind, NoUnit)
        /\ nstmts' = nstmts + 1
        /\ eval' = NoEval
        /\ UNCHANGED <<crashed, nsets, ngets, threads, lock>>

NextRange ==
    \/ CheckUnitNumberInRange64A
    \/ BeginNarrowedA
    \/ EnableHandlersA
    \/ EndIoStatementA

SpecRange == Init /\ [][NextRange]_vars

\* ------------------------------------------------------- WAIT and CLOSE
\* Unit 6 after OPEN(6, ASYNCHRONOUS='YES') and list-directed output
\* statements of which those with the ids `ids` are still outstanding
AsynchronousUnit(ids) ==
    [NewUnitRec EXCEPT !.mayAsynchronous = TRUE, !.isUnformatted = "false",
                       !.direction = "Output", !.asyncIds = ids]

\* The program before a WAIT or CLOSE: unit 6 is not connected, or it is
\* connected with some asynchronous transfers outstanding
InitWait ==
    /\ \E u \in {Unconnected} \cup {AsynchronousUnit(ids) : ids \in SUBSET (1..MaxAsyncId)} :
          units = [n \in UnitNumbers |-> IF n = 6 THEN u ELSE Unconnected]
    /\ stack = <<>>
    /\ crashed = "none"
    /\ last = [op |-> "none", unit |-> NoUnit, arg |-> "none", ret |-> "none",
               out |-> NoUnit]
    /\ nstmts = 0
    /\ nsets = 0
    /\ ngets = 0
    /\ threads = [t \in Threads |-> Idle]
    /\ lock = [n \in UnitNumbers |-> NoThread]
    /\ eval = NoEval

NextWait ==
    \/ BeginWaitA \/ BeginWaitAllA
    \/ BeginCloseA
    \/ BeginOpenUnitA
    \/ BeginExternalListOutputA
    \/ EnableHandlersA
    \/ SetAsynchronousA \/ SetStatusA
    \/ EndIoStatementA

SpecWait == InitWait /\ [][NextWait]_vars

\* ------------------------------------------------ inquiry keyword codec
\* InquiryKeywordHash is a 64-bit unsigned integer: four 16-bit digits, the
\* most significant first
Hash(i) == <<0, 0, i \div Limb, i % Limb>>

Alphabet ==
    <<"A", "B", "C", "D", "E", "F", "G", "H", "I", "J", "K", "L", "M",
      "N", "O", "P", "Q", "R", "S", "T", "U", "V", "W", "X", "Y", "Z">>

\* ch - 'A'
LetterIndex(ch) == (CHOOSE i \in 1..26 : Alphabet[i] = ch) - 1

\* 26 * hash + letter, modulo 2^64
MulAdd26(hash, letter) ==
    LET t4 == hash[4] * 26 + letter
        t3 == hash[3] * 26 + t4 \div Limb
        t2 == hash[2] * 26 + t3 \div Limb
        t1 == hash[1] * 26 + t2 \div Limb
    IN  <<t1 % Limb, t2 % Limb, t3 % Limb, t4 % Limb>>

\* HashInquiryKeyword: the encoder, from the sentinel 1
RECURSIVE HashLoop(_, _)
HashLoop(hash, p) ==
    IF p = <<>> THEN hash
    ELSE HashLoop(MulAdd26(hash, LetterIndex(Head(p))), Tail(p))

HashInquiryKeyword(p) == HashLoop(Hash(1), p)

\* hash % 26 taken of the low-order digit alone
Mod26OfLowDigit(hash) == hash[4] % 26

\* hash % 26
Mod26(hash) ==
    ((((((hash[1] % 26) * Limb + hash[2]) % 26) * Limb + hash[3]) % 26) * Limb
        + hash[4]) % 26

\* hash / 26
Div26(hash) ==
    LET t2 == (hash[1] % 26) * Limb + hash[2]
        t3 == (t2 % 26) * Limb + hash[3]
        t4 == (t3 % 26) * Limb + hash[4]
    IN  <<hash[1] \div 26, t2 \div 26, t3 \div 26, t4 \div 26>>

\* hash > 1
GreaterThanOne(hash) == hash[1] > 0 \/ hash[2] > 0 \/ hash[3] > 0 \/ hash[4] > 1

\* The loop of InquiryKeywordHashDecode: p is the offset of the pointer p from
\* buffer, text the letters stored so far (from p up to the terminator)
RECURSIVE DecodeLoop(_, _, _)
DecodeLoop(hash, p, text) ==
    IF GreaterThanOne(hash)
    THEN IF p < 0 THEN [ret |-> "null", p |-> p, text |-> text]
         ELSE DecodeLoop(Div26(hash), p - 1, <<Alphabet[Mod26(hash) + 1]>> \o text)
    ELSE IF hash = Hash(1) THEN [ret |-> "text", p |-> p, text |-> text]
         ELSE [ret |-> "null", p |-> p, text |-> text]

\* The result of a decode: what is returned (the text at the returned pointer
\* or null), whether a letter was stored before the start of the buffer, and
\* the class of the abort
D(ret, text, underrun, crash) ==
    [ret |-> ret, text |-> text, underrun |-> underrun, crash |-> crash]

\* InquiryKeywordHashDecode(buffer, n, hash). A letter stored at buffer - 1 is
\* a write outside the buffer: the call goes on as compiled, or faults
InquiryKeywordHashDecode(n, hash) ==
    IF n < 1 THEN {D("null", <<>>, FALSE, "none")}
    ELSE LET r == DecodeLoop(hash, n - 1, <<>>)
         IN  IF r.p < 0
             THEN {D(r.ret, r.text, TRUE, "none"), D("none", <<>>, TRUE, "segv")}
             ELSE {D(r.ret, r.text, FALSE, "none")}

\* Keywords the codec is tried with: every keyword of up to MaxKeywordLen of
\* the letters A, B and Z, and keywords of six to ten letters
MaxKeywordLen == 3
SampleLetters == {"A", "B", "Z"}
ShortKeywords ==
    UNION {[1..len -> SampleLetters] : len \in 1..MaxKeywordLen}
LongKeywords ==
    {<<"A", "C", "C", "E", "S", "S">>,
     <<"P", "E", "N", "D", "I", "N", "G">>,
     <<"P", "O", "S", "I", "T", "I", "O", "N">>,
     <<"R", "E", "A", "D", "W", "R", "I", "T", "E">>,
     <<"S", "E", "Q", "U", "E", "N", "T", "I", "A", "L">>,
     <<"A", "A", "A", "A", "A", "A", "A", "A", "A", "A">>,
     <<"Z", "Z", "Z", "Z", "Z", "Z", "Z", "Z", "Z", "Z">>,
     <<"B", "A", "A", "A", "A", "A", "A", "A", "A", "Z">>}
KeywordSamples == ShortKeywords \cup LongKeywords

\* Integers the decoder is tried with that no encoder produced: 0 .. MaxHash,
\* and integers near 2^16, 2^32, 2^48 and 2^64
MaxHash == 700
RawHashes ==
    {Hash(i) : i \in 0..MaxHash} \cup
    {<<0, 0, 0, AllOnes>>, <<0, 0, 1, 0>>, <<0, 0, AllOnes, AllOnes>>,
     <<0, 1, 0, 0>>, <<0, AllOnes, AllOnes, AllOnes>>, <<1, 0, 0, 0>>,
     <<32768, 0, 0, 0>>, <<AllOnes, AllOnes, AllOnes, AllOnes>>}

\* The sizes of the destination buffer
MaxBuffer == 12

NoHash == <<>>
NoResult == [ret |-> "not called"]

\* The number of letters the loop of InquiryKeywordHashDecode stores for hash
RECURSIVE Letters(_)
Letters(hash) == IF GreaterThanOne(hash) THEN 1 + Letters(Div26(hash)) ELSE 0

\* The encodings of the keywords of at most two letters: 1, 26 .. 51 and
\* 676 .. 1351
SmallEncodings ==
    {HashInquiryKeyword(p) :
        p \in UNION {[1..len -> {Alphabet[i] : i \in 1..26}] : len \in 0..2}}

\* A decode has been made
Decoded == eval.fn = "InquiryKeywordHashDecode" /\ eval.out # NoResult

\* A keyword to encode and decode, or an integer to decode
InitCodec ==
    /\ units = [n \in UnitNumbers |-> Unconnected]
    /\ stack = <<>>
    /\ crashed = "none"
    /\ last = [op |-> "none", unit |-> NoUnit, arg |-> "none", ret |-> "none",
               out |-> NoUnit]
    /\ nstmts = 0
    /\ nsets = 0
    /\ ngets = 0
    /\ threads = [t \in Threads |-> Idle]
    /\ lock = [n \in UnitNumbers |-> NoThread]
    /\ \E n \in 0..MaxBuffer :
          \/ \E p \in KeywordSamples :
                eval = [fn |-> "InquiryKeywordHashDecode", keyword |-> p,
                        raw |-> FALSE, hash |-> NoHash, n |-> n, out |-> NoResult]
          \/ \E hash \in RawHashes :
                eval = [fn |-> "InquiryKeywordHashDecode", keyword |-> <<>>,
                        raw |-> TRUE, hash |-> hash, n |-> n, out |-> NoResult]

\* The keyword is encoded
HashInquiryKeywordA ==
    /\ eval.fn = "InquiryKeywordHashDecode"
    /\ eval.hash = NoHash
    /\ eval' = [eval EXCEPT !.hash = HashInquiryKeyword(eval.keyword)]
    /\ last' = Called("HashInquiryKeyword", NoUnit, "none", "none", NoUnit)
    /\ UNCHANGED <<units, stack, crashed, nstmts, nsets, ngets, threads, lock>>

\* The integer is decoded into a buffer of n bytes
InquiryKeywordHashDecodeA ==
    /\ eval.fn = "InquiryKeywordHashDecode"
    /\ eval.hash # NoHash
    /\ eval.out = NoResult
    /\ \E o \in InquiryKeywordHashDecode(eval.n, eval.hash) :
        /\ eval' = [eval EXCEPT !.out = o]
        /\ crashed' = o.crash
        /\ last' = Called("InquiryKeywordHashDecode", NoUnit, "none", o.ret, NoUnit)
    /\ UNCHANGED <<units, stack, nstmts, nsets, ngets, threads, lock>>

NextCodec == HashInquiryKeywordA \/ InquiryKeywordHashDecodeA

SpecCodec == InitCodec /\ [][NextCodec]_vars

\* ------------------------------------------------------ OPEN statements
\* A unit as a completed OPEN left it: FORM=, ACCESS=, ACTION= and RECL= given
OpenedUnit(isUnformatted, access, action, recl) ==
    [NewUnitRec EXCEPT !.isUnformatted = isUnformatted, !.access = access,
                       !.mayRead = action # "Write", !.mayWrite = action # "Read",
                       !.openRecl = recl]

\* The connections of unit 6 that OPEN statements are begun on
OpenedUnits ==
    {OpenedUnit("false", "Sequential", "ReadWrite", 0),
     OpenedUnit("true", "Sequential", "ReadWrite", 0),
     OpenedUnit("false", "Sequential", "Read", 0),
     OpenedUnit("false", "Sequential", "Write", 0),
     OpenedUnit("true", "Direct", "ReadWrite", 1)}

\* No statement is in progress and unit 6 is unconnected or open, or an
\* OPEN(NEWUNIT=) statement has just begun with every unit unconnected
InitOpen ==
    /\ crashed = "none"
    /\ nstmts = 0
    /\ nsets = 0
    /\ ngets = 0
    /\ threads = [t \in Threads |-> Idle]
    /\ lock = [n \in UnitNumbers |-> NoThread]
    /\ eval = NoEval
    /\ \/ /\ \E u \in {Unconnected} \cup OpenedUnits :
                units = [n \in UnitNumbers |-> IF n = 6 THEN u ELSE Unconnected]
          /\ stack = <<>>
          /\ last = Called("none", NoUnit, "none", "none", NoUnit)
       \/ \E b \in BeginOpenNewUnit([n \in UnitNumbers |-> Unconnected]) :
            /\ units = b.units
            /\ stack = <<b.cookie>>
            /\ last = Called("BeginOpenNewUnit", NoUnit, "none", b.cookie.kind, NoUnit)

\* GetNewUnit called with the cookie of an OPEN statement after EndIoStatement
\* has destroyed the statement: the cookie dangles, and the call faults or acts
\* on whatever the freed storage holds
GetNewUnitEndedA ==
    /\ MayCall
    /\ ngets < MaxGets
    /\ stack = <<>>
    /\ last.op = "EndIoStatement"
    /\ last.arg = "Open"
    /\ \E o \in {"segv", "true", "false"} :
        /\ crashed' = IF o = "segv" THEN "segv" ELSE "none"
        /\ last' = Called("GetNewUnit", last.unit, "ended",
                          IF o = "segv" THEN "none" ELSE o,
                          IF o = "true" THEN last.unit ELSE NoUnit)
    /\ ngets' = ngets + 1
    /\ UNCHANGED <<units, stack, nstmts, nsets>>
    /\ UNCHANGED others

\* OPEN statements with the specifiers that are checked against the unit, the
\* positional setters, an unformatted transfer and a statement without a unit
NextOpen ==
    \/ BeginOpenUnitA \/ BeginOpenNewUnitA
    \/ BeginUnformattedOutputA \/ BeginInternalListOutputA
    \/ EnableHandlersA
    \/ SetPosA \/ SetRecA
    \/ SetAccessA \/ SetActionA \/ SetFormA \/ SetReclA \/ SetStatusA
    \/ GetNewUnitA \/ GetNewUnitEndedA
    \/ EndIoStatementA

SpecOpen == InitOpen /\ [][NextOpen]_vars

\* ------------------------------------------------------------------ C1
\* C1: every Begin entry point returns a statement handle, never null: after
\* any Begin call the value returned is a statement, and it is the innermost
\* statement in progress.
C1_BeginNeverReturnsNull ==
    last.op \in BeginOps =>
        /\ last.ret # "null"
        /\ stack # <<>>
        /\ Top.kind = last.ret

\* C1 witness: an OPEN addressed to a unit with an active child context came
\* back as an erroneous statement (the child-unit rejection path).
C1_Witness ==
    /\ last.op = "BeginOpenUnit"
    /\ stack # <<>>
    /\ Top.kind = "Erroneous"
    /\ Top.pending = "BadOpOnChildUnit"

\* ------------------------------------------------------------------ C2
\* C2: on a handle whose Begin detected a recoverable failure, with a channel
\* enabled, no later call is fatal.
C2_FailedBeginHandleNeverFatal ==
    (stack # <<>> /\ Top.begun # "Ok" /\ Top.flags # {}) => crashed = "none"

\* ------------------------------------------------------------------ C3
\* C3 as written: a status detected while no channel is enabled is fatal at
\* the point of detection, so no statement holds a detected status with no
\* channel enabled unless the run has aborted.
C3_FatalAtDetection ==
    \A i \in 1..Len(stack) :
        (stack[i].detected # "Ok" /\ stack[i].flags = {}) => crashed # "none"

\* C3 amended: a status signalled by a call on the statement while no channel
\* is enabled aborts in that call (what is left without an abort is only the
\* status a Begin holds pending); EndIoStatement never returns from a statement
\* that detected a status unless a channel is enabled, and then it returns a
\* status other than ok.
C3_NeverDropped ==
    [][/\ \A i \in 1..Len(stack') :
            (/\ stack'[i].detected # "Ok"
             /\ stack'[i].flags = {}
             /\ stack'[i].pending = "Ok") => crashed' # "none"
       /\ (EndReturned /\ Top.detected # "Ok") =>
              (Top.flags # {} /\ last'.ret # "Ok")]_vars

\* C3 witness: the status a Begin detected was still pending, with no channel
\* enabled, when EndIoStatement was called, and the run aborted there.
C3_Witness ==
    /\ crashed = "unhandled"
    /\ last.op = "EndIoStatement"
    /\ Top.begun # "Ok"
    /\ Top.flags = {}

\* ------------------------------------------------------------------ C4
OpenOnlySetters ==
    {"SetAccess", "SetAction", "SetCarriagecontrol", "SetConvert", "SetEncoding",
     "SetForm", "SetPosition", "SetRecl", "SetFile"}

\* C4 as written: an OPEN-only setter called on a statement that is not an
\* OPEN always takes the fatal misuse path.
C4_NonOpenAlwaysFatal ==
    (last.op \in OpenOnlySetters /\ stack # <<>> /\ Top.kind # "Open")
        => crashed = "misuse"

\* C4 amended: an OPEN-only setter called on a statement that is neither an
\* OPEN nor an erroneous statement always takes the fatal misuse path,
\* whatever channels are enabled.
C4_NonOpenNonErroneousFatal ==
    (last.op \in OpenOnlySetters /\ stack # <<>>
        /\ Top.kind \notin {"Open", "Erroneous"})
        => crashed = "misuse"

\* C4 witness: SetAccess on a no-op statement with a channel enabled aborted.
C4_Witness ==
    /\ last.op = "SetAccess"
    /\ stack # <<>>
    /\ Top.kind = "Noop"
    /\ Top.flags # {}
    /\ crashed = "misuse"

\* ------------------------------------------------------------------ C5
OpenSetters == OpenOnlySetters \cup {"SetAsynchronous", "SetStatus"}

\* The pending specifiers of an OPEN statement
Specifiers(s) ==
    <<s.oAccess, s.oAction, s.oPosition, s.oStatus, s.oForm, s.oConvert, s.oPath>>

\* C5: once an OPEN statement is completed, every call of an OPEN specifier
\* setter on it aborts, and the call changes no pending specifier of the
\* statement and no attribute of any unit.
C5_CompletedOpenRejectsSetters ==
    [][(/\ stack # <<>>
        /\ Top.kind = "Open"
        /\ Top.completed
        /\ last'.op \in OpenSetters)
       => (/\ crashed' # "none"
           /\ Specifiers(stack'[Len(stack')]) = Specifiers(Top)
           /\ units' = units)]_vars

\* C5 witness: GetNewUnit completed an OPEN and stored the unit number, and
\* the SetAccess call that followed aborted on the misuse path.
C5_Witness ==
    /\ last.op = "SetAccess"
    /\ stack # <<>>
    /\ Top.kind = "Open"
    /\ Top.completed
    /\ ~InError(Top)
    /\ crashed = "misuse"

\* --------------------------------------------------- Begin calls on units
\* The step is a Begin call
BeginStep == nstmts' = nstmts + 1

\* The formatting a transfer Begin asks for conflicts with the flag
Mismatch(op, flag) ==
    \/ op \in ListBegins \cup FormattedBegins /\ flag = "true"
    \/ op \in UnformattedBegins /\ flag = "false"

MismatchStatus(op) ==
    IF op \in UnformattedBegins THEN "UnformattedIoOnFormattedUnit"
    ELSE "FormattedIoOnUnformattedUnit"

\* ------------------------------------------------------------------ C6
\* C6: a transfer Begin that asks for the formatting opposite to the one
\* established on its unit returns an erroneous statement carrying the
\* matching formatting-mismatch status and changes nothing in the registry
\* (formatting flag, direction and record state included).
C6_MismatchLeavesUnit ==
    [][\A u \in UnitNumbers :
          (/\ BeginStep
           /\ last'.op \in TransferBegins
           /\ u = Resolved(last'.op, last'.unit)
           /\ units[u].connected
           /\ Mismatch(last'.op, units[u].isUnformatted))
          => (/\ stack'[Len(stack')].kind = "Erroneous"
              /\ stack'[Len(stack')].pending = MismatchStatus(last'.op)
              /\ units' = units)]_vars

\* C6 witness: an unformatted Begin on a formatted unit came back erroneous.
C6_Witness ==
    /\ last.op = "BeginUnformattedInput"
    /\ stack # <<>>
    /\ Top.kind = "Erroneous"
    /\ Top.pending = "UnformattedIoOnFormattedUnit"
    /\ units[last.unit].isUnformatted = "false"

\* ------------------------------------------------------------------ C7
\* C7: once the formatting flag of a connected unit has a value, no step other
\* than one of an OPEN statement of that unit changes it while the unit stays
\* connected.
C7_FormattingFlagKept ==
    [][\A n \in UnitNumbers :
          (/\ units[n].connected
           /\ units'[n].connected
           /\ units[n].isUnformatted # "none"
           /\ units'[n].isUnformatted # units[n].isUnformatted)
          => (stack # <<>> /\ Top.kind = "Open" /\ Top.unit = n)]_vars

\* C7 witness: an unformatted Begin was made on unit 6 whose flag said
\* formatted, and the flag still says formatted.
C7_Witness ==
    /\ last.op = "BeginUnformattedOutput"
    /\ last.unit = 6
    /\ units[6].connected
    /\ units[6].isUnformatted = "false"

OnChildUnit ==
    /\ last.op \in BeginOps
    /\ Len(stack) = 2
    /\ stack[1].callback
    /\ Resolved(last.op, last.unit) = stack[1].unit
    /\ units[stack[1].unit].child

RejectedOnChild ==
    {"BeginOpenUnit", "BeginClose", "BeginBackspace", "BeginRewind", "BeginEndfile"}

\* C10 as written: against a unit with an active child context only transfer
\* Begins and Flush are accepted, every other Begin comes back erroneous.
C10_OnlyTransfersAndFlush ==
    (OnChildUnit /\ Top.kind # "Erroneous")
        => last.op \in TransferBegins \cup {"BeginFlush"}

\* C10 amended: against a unit with an active child context, BeginOpenUnit,
\* BeginClose, BeginBackspace, BeginRewind and BeginEndfile return an
\* erroneous statement bound to no unit with the bad-operation-on-child-unit
\* status; transfer Begins, Flush, InquireUnit and InquireFile are taken as
\* statements of the child context; BeginWait and BeginWaitAll do not look at
\* the child context.
C10_ChildUnitBegins ==
    OnChildUnit =>
        /\ last.op \in RejectedOnChild =>
              (/\ Top.kind = "Erroneous"
               /\ Top.begun = "BadOpOnChildUnit"
               /\ Top.unit = NoUnit
               /\ Top.viaChild)
        /\ Top.kind # "Erroneous" =>
              last.op \in TransferBegins \cup
                  {"BeginFlush", "BeginInquireUnit", "BeginInquireFile",
                   "BeginWait", "BeginWaitAll"}
        /\ Top.viaChild <=> last.op \notin {"BeginWait", "BeginWaitAll"}

\* C10 witness: BeginClose on the unit of the transfer in progress came back
\* erroneous with the bad-operation-on-child-unit status.
C10_Witness ==
    /\ OnChildUnit
    /\ last.op = "BeginClose"
    /\ Top.begun = "BadOpOnChildUnit"

\* ----------------------------------------------------------------- C11
\* What ChildIo::CheckFormattingAndDirection answers for the transfer Begin
\* `op` nested in the statement `parent`
Compatibility(parent, op) ==
    CheckFormattingAndDirection(parent, op \in UnformattedBegins, DirOf(op))

\* C11: a transfer Begin nested in a unit's active child context is started as
\* a child statement only if its formatting and direction are compatible with
\* the parent's; otherwise the handle returned is an erroneous statement bound
\* to no unit that carries the status of the compatibility check, and no child
\* transfer statement is started.
C11_NestedBeginCompatibility ==
    (OnChildUnit /\ last.op \in TransferBegins) =>
        /\ Top.kind \in ChildKinds => Compatibility(stack[1], last.op) = "Ok"
        /\ Compatibility(stack[1], last.op) # "Ok" =>
              (/\ Top.kind = "Erroneous"
               /\ Top.unit = NoUnit
               /\ Top.begun = Compatibility(stack[1], last.op))

\* ----------------------------------------------------------------- C12
\* Thread t has a statement in progress (begun, not ended) on unit u
ActiveOn(t, u) ==
    \E i \in 1..Len(threads[t].stack) : threads[t].stack[i].unit = u

\* C12: with several threads, a statement has its unit to itself from Begin
\* through End: in no interleaving do two threads have statements in progress
\* on the same unit at once (the statement a thread begins from its own
\* defined-I/O callback is nested in that thread's parent statement).
C12_ExclusiveUnitAccess ==
    \A u \in UnitNumbers : \A t1, t2 \in Threads :
        (ActiveOn(t1, u) /\ ActiveOn(t2, u)) => t1 = t2

\* ----------------------------------------------------------------- C13
\* C13: in no interleaving does a thread run the part of a Begin entry point
\* that reads and writes the fields of a unit (formatting flag, direction,
\* access, child context, asynchronous ids) while another thread has a
\* statement in progress on that unit.
C13_UnitFieldsSerialized ==
    (last.op \in BeginOps /\ last.arg \in Threads) =>
        \A t \in Threads \ {last.arg} :
            ~ActiveOn(t, Resolved(last.op, last.unit))

\* ----------------------------------------------------------------- C14
\* The step is a Begin call whose caller held a unit number outside the range
\* of ExternalUnit
BeginOutOfRange == BeginStep /\ last'.arg = "out of range"

\* The step is EndIoStatement returning from the statement that the call just
\* before it, a Begin with a unit number outside the range, had begun
EndOfOutOfRange ==
    /\ last.op \in UnitBegins
    /\ last.arg = "out of range"
    /\ EndReturned

\* C14 as written: for every unit number outside the representable range, a
\* Begin call returns a handle whose status at EndIoStatement is unit
\* overflow, and the registry holds the same units after the call as before.
C14_BeginReportsOverflow ==
    [][/\ BeginOutOfRange => units' = units
       /\ EndOfOutOfRange => last'.ret = "UnitOverflow"]_vars

\* C14 amended: for every unit number outside the representable range, the
\* validator called with handleError returns unit overflow and leaves the
\* registry and the statements as they are; a Begin call is given the number
\* narrowed to ExternalUnit and acts on the unit of that number, which it
\* never reports as unit overflow, at Begin or at EndIoStatement.
C14_ValidatorReportsOverflow ==
    [][/\ (/\ last'.op = "CheckUnitNumberInRange64"
           /\ ~Representable(eval'.unit)
           /\ eval'.handleError)
          => (/\ eval'.ret = "UnitOverflow"
              /\ crashed' = "none"
              /\ units' = units
              /\ stack' = stack)
       /\ BeginOutOfRange =>
              (/\ stack'[Len(stack')].detected # "UnitOverflow"
               /\ stack'[Len(stack')].unit \in
                      {NoUnit, Resolved(last'.op, last'.unit)})
       /\ EndOfOutOfRange => last'.ret # "UnitOverflow"]_vars

\* C14 witness: a list-directed output Begin by a caller whose unit number
\* was 2^32 + 6 began a statement on unit 6, which it connected.
C14_Witness ==
    /\ last.op = "BeginExternalListOutput"
    /\ last.arg = "out of range"
    /\ last.unit = 6
    /\ stack # <<>>
    /\ Top.kind = "ExternalList"
    /\ Top.unit = 6
    /\ units[6].connected

\* ----------------------------------------------------------------- C15
\* C15: CheckUnitNumberInRange64 returns ok exactly for the 64-bit values in
\* -2^31 .. 2^31 - 1; for every other value it returns unit overflow when
\* handleError is true and aborts when handleError is false; it changes no
\* unit and no statement.
C15_RangeValidator ==
    [][last'.op = "CheckUnitNumberInRange64" =>
          /\ units' = units
          /\ stack' = stack
          /\ IF Representable(eval'.unit)
             THEN eval'.ret = "Ok" /\ crashed' = "none"
             ELSE IF eval'.handleError
             THEN eval'.ret = "UnitOverflow" /\ crashed' = "none"
             ELSE crashed' # "none"]_vars

\* C15 witness: the validator was called with -2^31 - 1 and handleError and
\* returned unit overflow.
C15_Witness ==
    /\ eval.fn = "CheckUnitNumberInRange64"
    /\ eval.unit = <<AllOnes, AllOnes, 32767, AllOnes>>
    /\ eval.handleError
    /\ eval.ret = "UnitOverflow"
    /\ crashed = "none"

\* ----------------------------------------------------------------- C16
\* The step is the Begin call `op` on a unit number that is not connected
BeginOnUnconnected(op) ==
    /\ BeginStep
    /\ last'.op = op
    /\ ~IsConnected(units, last'.unit)

\* The innermost statement is a no-op statement that holds no status and on
\* which no call has detected one
OkNoop == stack # <<>> /\ Top.kind = "Noop" /\ Top.detected = "Ok"

\* C16: BeginClose on a unit number that is not connected returns a no-op
\* statement holding no status and adds no unit to the registry; SetStatus on
\* it returns true for every keyword, in the CLOSE table or not, and detects
\* nothing; EndIoStatement then returns ok.
C16_CloseUnconnectedIsNoop ==
    [][/\ BeginOnUnconnected("BeginClose") =>
              (/\ stack'[Len(stack')].kind = "Noop"
               /\ stack'[Len(stack')].pending = "Ok"
               /\ units' = units)
       /\ (OkNoop /\ last'.op = "SetStatus") =>
              (/\ crashed' = "none"
               /\ last'.ret = "true"
               /\ stack'[Len(stack')].detected = "Ok"
               /\ units' = units)
       /\ (OkNoop /\ last'.op = "EndIoStatement") =>
              (/\ crashed' = "none"
               /\ last'.ret = "Ok"
               /\ stack' = <<>>
               /\ units' = units)]_vars

\* C16 witness: after BeginClose on the unconnected unit 6, SetStatus with a
\* keyword of no table returned true and the no-op statement holds no status.
C16_Witness ==
    /\ last.op = "SetStatus"
    /\ last.arg = "BOGUS"
    /\ last.ret = "true"
    /\ OkNoop
    /\ ~InError(Top)
    /\ ~units[6].connected

\* ----------------------------------------------------------------- C17
\* C17: BeginWait on a unit that is not connected returns a no-op statement
\* that holds no status when id = 0 and the bad-wait-unit status for every
\* other id, and creates no unit; EndIoStatement on it, when nothing else was
\* detected, returns that status.
C17_WaitOnUnconnected ==
    [][/\ BeginOnUnconnected("BeginWait") =>
              (/\ stack'[Len(stack')].kind = "Noop"
               /\ stack'[Len(stack')].pending =
                      (IF last'.arg = IdName(0) THEN "Ok" ELSE "BadWaitUnit")
               /\ units' = units)
       /\ (/\ stack # <<>>
           /\ Top.kind = "Noop"
           /\ Top.detected = Top.begun
           /\ EndReturned) => last'.ret = Top.begun]_vars

\* C17 witness: BeginWait with a nonzero id on the unconnected unit 6
\* returned a no-op statement holding the bad-wait-unit status.
C17_Witness ==
    /\ last.op = "BeginWait"
    /\ last.unit = 6
    /\ last.arg = IdName(1)
    /\ ~units[6].connected
    /\ stack # <<>>
    /\ Top.kind = "Noop"
    /\ Top.pending = "BadWaitUnit"

\* ----------------------------------------------------------------- C18
\* The statement the Begin call of this step returned
Begun == stack'[Len(stack')]

\* C18: on a connected unit, BeginWait with a nonzero id that is not an
\* outstanding asynchronous id of the unit returns an erroneous statement with
\* the bad-WAIT-id status; with id = 0 or an outstanding id it begins a Wait
\* statement on the unit; BeginWaitAll(unit) does what BeginWait(unit, 0) does.
C18_WaitOnConnected ==
    [][/\ (BeginStep /\ last'.op = "BeginWait" /\ IsConnected(units, last'.unit)) =>
              \A id \in WaitIds :
                  last'.arg = IdName(id) =>
                      IF id = 0 \/ id \in units[last'.unit].asyncIds
                      THEN /\ Begun.kind = "Misc"
                           /\ Begun.which = "Wait"
                           /\ Begun.unit = last'.unit
                           /\ Begun.pending = "Ok"
                      ELSE /\ Begun.kind = "Erroneous"
                           /\ Begun.pending = "BadWaitId"
       /\ (BeginStep /\ last'.op = "BeginWaitAll") =>
              \E b \in BeginWait(units, last'.unit, 0) :
                  /\ Begun = b.cookie
                  /\ units' = b.units]_vars

\* C18 witness: BeginWait on the connected unit 6 with an id that is not
\* outstanding there returned the bad-WAIT-id status while another id is
\* outstanding.
C18_Witness ==
    /\ last.op = "BeginWait"
    /\ last.unit = 6
    /\ units[6].connected
    /\ units[6].asyncIds # {}
    /\ stack # <<>>
    /\ Top.kind = "Erroneous"
    /\ Top.pending = "BadWaitId"

\* ------------------------------------------------------------------ C19
\* C19: the decoder is a two-sided inverse of the encoder. A keyword of 1 to
\* 10 letters that is encoded and then decoded into a buffer of at least
\* (letters + 1) bytes comes back unchanged, with no store outside the
\* buffer; whenever a decode returns a text, encoding that text gives the
\* integer decoded; and the decode of 0, and of every integer up to MaxHash
\* that is not an encoding, returns null.
C19_CodecInverse ==
    Decoded =>
        /\ (~eval.raw /\ Len(eval.keyword) \in 1..10
                /\ eval.n >= Len(eval.keyword) + 1)
             => eval.out = D("text", eval.keyword, FALSE, "none")
        /\ eval.out.ret = "text"
             => HashInquiryKeyword(eval.out.text) = eval.hash
        /\ (eval.raw /\ eval.out.crash = "none"
                /\ (eval.hash = Hash(0)
                    \/ (eval.hash \in {Hash(i) : i \in 0..MaxHash}
                        /\ eval.hash \notin SmallEncodings)))
             => eval.out.ret = "null"

\* A keyword of ten letters was encoded and decoded back into a buffer of
\* eleven bytes
C19_Witness ==
    /\ Decoded
    /\ ~eval.raw
    /\ Len(eval.keyword) = 10
    /\ eval.n = 11
    /\ eval.out.ret = "text"
    /\ eval.out.text = eval.keyword

\* ------------------------------------------------------------------ C20
\* C20: a decode into a buffer of n bytes, n less than the number of letters
\* of the hash plus one, returns null, for every hash and every n >= 0.
C20_ShortBufferFails ==
    (Decoded /\ eval.n < Letters(eval.hash) + 1) => eval.out.ret = "null"

\* ------------------------------------------------------------------ C21
\* A call of a setter on an OPEN statement that has not completed
OnOpenInProgress(op) ==
    /\ stack # <<>>
    /\ Top.kind = "Open"
    /\ ~Top.completed
    /\ last'.op = op
    /\ Len(stack') = Len(stack)

\* C21: SetRecl(0) on an OPEN statement that has not completed always fails
\* with the status of "RECL= must be greater than zero": when the call
\* returns it returns false and the statement is in error; it aborts only when
\* no channel is enabled, and then as an unhandled status, not as misuse; and
\* in both cases no unit's record length (nothing of the registry) changes.
C21_SetReclZeroFails ==
    [][OnOpenInProgress("SetRecl") =>
        /\ last'.arg = "zero" =>
              /\ crashed' = "none"
              /\ last'.ret = "false"
              /\ InError(stack'[Len(stack')])
              /\ stack'[Len(stack')].detected # "Ok"
              /\ units' = units
        /\ crashed' # "none" =>
              /\ crashed' = "unhandled"
              /\ Top.flags = {}
              /\ stack'[Len(stack')].detected # "Ok"
              /\ units' = units]_vars

\* C21 witness: SetRecl(0) on the OPEN of a new unit, with a channel enabled,
\* returned false with the status stored and the record length still unset.
C21_Witness ==
    /\ last.op = "SetRecl"
    /\ last.arg = "zero"
    /\ last.ret = "false"
    /\ stack # <<>>
    /\ Top.kind = "Open"
    /\ ~Top.wasExtant
    /\ ~Top.completed
    /\ Top.ioStat = "GenericError"
    /\ units[Top.unit].openRecl = 0

\* ------------------------------------------------------------------ C22
\* The Set* entry points
SetOps ==
    OpenSetters \cup {"SetAdvance", "SetBlank", "SetDecimal", "SetDelim", "SetPad",
                      "SetPos", "SetRec", "SetRound", "SetSign"}

\* A Set* call that returned
SetReturned ==
    /\ stack # <<>>
    /\ last'.op \in SetOps
    /\ Len(stack') = Len(stack)
    /\ crashed' = "none"

\* C22: a Set* call returns whether it succeeded: a call that recorded a
\* status on a statement that held none returns false, and a call returns
\* true only when it recorded none.
C22_SetReturnsSuccess ==
    [][SetReturned =>
        /\ (Top.detected = "Ok" /\ stack'[Len(stack')].detected # "Ok")
              => last'.ret = "false"
        /\ (Top.detected = "Ok" /\ last'.ret = "true")
              => stack'[Len(stack')].detected = "Ok"]_vars

\* ------------------------------------------------------------------ C23
\* The setters of the keyword-valued specifiers
ModeSetters ==
    {"SetAdvance", "SetBlank", "SetDecimal", "SetDelim", "SetPad", "SetRound",
     "SetSign"}
KeywordSetters ==
    ModeSetters \cup {"SetAccess", "SetAction", "SetAsynchronous", "SetEncoding",
                      "SetForm", "SetPosition", "SetStatus"}

\* The outcomes of the keyword setter `op` called with `keyword`
KeywordSetter(op, s, us, keyword) ==
    CASE op = "SetAdvance" -> SetAdvance(s, us, keyword)
      [] op = "SetBlank" -> SetBlank(s, us, keyword)
      [] op = "SetDecimal" -> SetDecimal(s, us, keyword)
      [] op = "SetDelim" -> SetDelim(s, us, keyword)
      [] op = "SetPad" -> SetPad(s, us, keyword)
      [] op = "SetRound" -> SetRound(s, us, keyword)
      [] op = "SetSign" -> SetSign(s, us, keyword)
      [] op = "SetAccess" -> SetAccess(s, us, keyword)
      [] op = "SetAction" -> SetAction(s, us, keyword)
      [] op = "SetAsynchronous" -> SetAsynchronous(s, us, keyword)
      [] op = "SetEncoding" -> SetEncoding(s, us, keyword)
      [] op = "SetForm" -> SetForm(s, us, keyword)
      [] op = "SetPosition" -> SetPosition(s, us, keyword)
      [] op = "SetStatus" -> SetStatus(s, us, keyword)

\* The statement variants that own the specifier of `op`
Owns(s, op) ==
    IF op \in ModeSetters
    THEN s.kind \in TransferKinds \cup ChildKinds \cup InternalKinds
    ELSE IF op = "SetAsynchronous"
    THEN s.kind = "Open" \/ IsExternalIoStatementBase(s)
    ELSE IF op = "SetStatus" THEN s.kind \in {"Open", "Close"}
    ELSE s.kind = "Open"

\* The call records "error in keyword value" and returns
RecordsErrorInKeyword(s, o) ==
    /\ o.crash = "none"
    /\ InError(o.s)
    /\ ~InError(s) => o.s.ioStat = "ErrorInKeyword"

\* C23 as written: on a statement that owns the specifier and has a channel
\* enabled, every keyword setter called with a value of no table records
\* "error in keyword value" and does not abort.
C23_BadKeywordRecoverable ==
    (stack # <<>> /\ ~Top.callback /\ crashed = "none" /\ Top.flags # {}) =>
        \A op \in KeywordSetters :
            Owns(Top, op) =>
                \A o \in KeywordSetter(op, Top, units, "BOGUS") :
                    RecordsErrorInKeyword(Top, o)

\* C23 amended: the same, for a statement that owns the specifier and, when
\* it is an OPEN, has not completed; on a completed OPEN the call aborts on
\* the misuse path.
C23_BadKeywordRecoverableBeforeCompletion ==
    (stack # <<>> /\ ~Top.callback /\ crashed = "none" /\ Top.flags # {}) =>
        \A op \in KeywordSetters :
            Owns(Top, op) =>
                \A o \in KeywordSetter(op, Top, units, "BOGUS") :
                    IF Top.kind = "Open" /\ Top.completed
                    THEN o.crash = "misuse"
                    ELSE RecordsErrorInKeyword(Top, o)

\* C23 witness: SetStatus with a value of no table was called on a CLOSE
\* statement with a channel enabled, and the statement holds the status.
C23_Witness ==
    /\ last.op = "SetStatus"
    /\ last.arg = "BOGUS"
    /\ last.ret = "false"
    /\ crashed = "none"
    /\ stack # <<>>
    /\ Top.kind = "Close"
    /\ Top.flags # {}
    /\ Top.ioStat = "ErrorInKeyword"

\* ------------------------------------------------------------------ C24
\* A step that is a call of GetNewUnit on an OPEN statement in progress
GetNewUnitOnOpen ==
    /\ stack # <<>>
    /\ Top.kind = "Open"
    /\ last'.op = "GetNewUnit"
    /\ last'.arg # "ended"
    /\ Len(stack') = Len(stack)

\* GetNewUnit on an OPEN statement in error: false, nothing stored, the
\* completed flag and the registry as before
GetNewUnitInError ==
    (GetNewUnitOnOpen /\ InError(Top)) =>
        /\ crashed' = "none"
        /\ last'.ret = "false"
        /\ last'.out = NoUnit
        /\ Top'.completed = Top.completed
        /\ Top'.ioStat = Top.ioStat
        /\ units' = units

StandardInput == 5
StandardOutput == 6

\* A step that is a list-directed or formatted external Begin call
ListOrFormattedBegin ==
    /\ last'.op \in ListBegins \cup FormattedBegins
    /\ Len(stack') = Len(stack) + 1

\* The unit the default-unit sentinel stands for in the call of the step
SentinelUnit ==
    IF last'.op \in {"BeginExternalListInput", "BeginExternalFormattedInput"}
    THEN StandardInput ELSE StandardOutput

\* C25: a list-directed or formatted external Begin given the default-unit
\* sentinel acts on unit 5 for input and on unit 6 for output, and on no
\* other unit; BeginExternalListOutput on unit 6 while it is unconnected
\* connects it as a formatted unit and begins a list-directed output statement
\* that is not in error.
C25_DefaultUnitResolution ==
    [][/\ (ListOrFormattedBegin /\ last'.unit = DefaultUnit) =>
              /\ Top'.unit \in {SentinelUnit, NoUnit}
              /\ Top'.unit = NoUnit => Top'.kind = "Erroneous"
              /\ units'[SentinelUnit].connected
              /\ \A n \in UnitNumbers \ {SentinelUnit} : units'[n] = units[n]
       /\ (ListOrFormattedBegin /\ last'.op = "BeginExternalListOutput"
             /\ last'.unit \in {StandardOutput, DefaultUnit}
             /\ ~units[StandardOutput].connected) =>
              /\ Top'.kind = "ExternalList"
              /\ Top'.dir = "Output"
              /\ Top'.unit = StandardOutput
              /\ ~InError(Top')
              /\ Top'.begun = "Ok"
              /\ units'[StandardOutput].connected
              /\ units'[StandardOutput].isUnformatted = "false"
              /\ units'[StandardOutput].direction = "Output"
              /\ crashed' = "none"]_vars

\* C25 witness: the first statement of the program is a list-directed output
\* statement begun on the default unit, and it is on unit 6.
C25_Witness ==
    /\ nstmts = 1
    /\ last.op = "BeginExternalListOutput"
    /\ last.unit = DefaultUnit
    /\ stack # <<>>
    /\ Top.kind = "ExternalList"
    /\ Top.unit = StandardOutput
    /\ ~InError(Top)
    /\ units[StandardOutput].connected

\* ------------------------------------------------------------------ C26
\* The OPEN(NEWUNIT=) statement of the scenario: not in error, not completed,
\* with ACCESS= and STATUS= as given and no other specifier checked against
\* the unit
NewUnitOpen(s, access, status) ==
    /\ s.kind = "Open"
    /\ s.unit \in NewUnitNumbers
    /\ ~s.wasExtant
    /\ ~InError(s)
    /\ ~s.completed
    /\ s.oAccess = access
    /\ s.oStatus = status
    /\ s.oForm = "none"
    /\ s.oAction = "none"

\* The unit the OPEN of the scenario leaves: connected for stream access, no
\* formatted transfer or FORM='FORMATTED' having fixed its formatting
StreamUnit(u) ==
    /\ u.connected
    /\ u.access = "Stream"
    /\ u.isUnformatted # "false"

\* BeginOpenNewUnit, SetAccess("STREAM"), SetStatus("REPLACE"): the number is
\* not in use before the Begin call, and both setters are accepted
ScenarioOpens ==
    /\ (last'.op = "BeginOpenNewUnit" /\ Len(stack') = Len(stack) + 1) =>
           /\ NewUnitOpen(Top', "none", "none")
           /\ ~units[Top'.unit].connected
           /\ crashed' = "none"
    /\ (stack # <<>> /\ NewUnitOpen(Top, "none", "none")
          /\ last'.op = "SetAccess" /\ last'.arg = "STREAM") =>
           /\ last'.ret = "true"
           /\ NewUnitOpen(Top', "Stream", "none")
           /\ units' = units
    /\ (stack # <<>> /\ NewUnitOpen(Top, "Stream", "none")
          /\ last'.op = "SetStatus" /\ last'.arg = "REPLACE") =>
           /\ last'.ret = "true"
           /\ NewUnitOpen(Top', "Stream", "REPLACE")
           /\ units' = units

\* BeginUnformattedOutput on the number n, no statement being in progress
ScenarioWrites(n) ==
    (stack = <<>> /\ StreamUnit(units[n])
       /\ last'.op = "BeginUnformattedOutput" /\ last'.unit = n) =>
        /\ crashed' = "none"
        /\ Len(stack') = 1
        /\ Top'.kind = "ExternalUnformatted"
        /\ Top'.dir = "Output"
        /\ Top'.unit = n
        /\ ~InError(Top')
        /\ Top'.begun = "Ok"
        /\ units'[n].isUnformatted = "true"

FormattingMismatch == {"FormattedIoOnUnformattedUnit", "UnformattedIoOnFormattedUnit"}

\* The statement is the OPEN of a unit that was connected and whose formatting
\* is established
ReopenOfFormattedOrUnformatted(s, us) ==
    /\ s.kind = "Open"
    /\ s.wasExtant
    /\ ~s.completed
    /\ us[s.unit].isUnformatted \in {"true", "false"}

\* ... and holds a FORM= that conflicts with it
ConflictingForm(s, us) ==
    /\ ReopenOfFormattedOrUnformatted(s, us)
    /\ s.oForm = (IF us[s.unit].isUnformatted = "true" THEN "false" ELSE "true")

C28_PositionalSetterMisuse ==
    [][(stack # <<>> /\ ~Top.callback /\ last'.op \in {"SetPos", "SetRec"}
          /\ Len(stack') = Len(stack)) =>
           /\ Top.kind \in InternalKinds => crashed' = "misuse"
           /\ Top.kind \in {"Noop", "Erroneous"} => crashed' = "none"]_vars

\* ------------------------------------------------------------------ C29
\* The direction of the Begin call of the step
BeginDirection ==
    IF last'.op \in {"BeginExternalListInput", "BeginExternalFormattedInput"}
    THEN "Input" ELSE "Output"

\* The unit the Begin call of the step names
BeginUnit == IF last'.unit = DefaultUnit THEN SentinelUnit ELSE last'.unit

\* The status of the first check that fails, the checks taken in the order:
\* formatting of the unit; with a child context, compatibility with the
\* parent statement; without one, direct access (list-directed only) and then
\* the setting of the direction, which may be refused on a unit that has the
\* other direction
FirstFailedCheck(u) ==
    IF u.connected /\ u.isUnformatted = "true"
    THEN {"FormattedIoOnUnformattedUnit"}
    ELSE IF u.child
    THEN IF stack[1].kind \in {"ExternalUnformatted", "ChildUnformatted"}
         THEN {"FormattedChildOnUnformattedParent"}
         ELSE IF stack[1].dir # BeginDirection
         THEN {IF stack[1].dir = "Input" THEN "ChildOutputToInputParent"
               ELSE "ChildInputFromOutputParent"}
         ELSE {"Ok"}
    ELSE IF last'.op \in ListBegins /\ u.connected /\ u.access = "Direct"
    THEN {"ListIoOnDirectAccessUnit"}
    ELSE IF u.connected /\ u.direction \notin {"none", BeginDirection}
    THEN {"Ok", "DirectionConflict"}
    ELSE {"Ok"}

\* C29: a list-directed or formatted external Begin on a unit that resolves
\* carries the status of the first failed check and no other, begins a
\* transfer statement exactly when no check failed, and changes the direction
\* of a connected unit only when no check failed.
C29_FirstFailedCheckWins ==
    [][(ListOrFormattedBegin /\ Top'.kind # "Noop") =>
           /\ BeginUnit \in UnitNumbers
           /\ Top'.begun \in FirstFailedCheck(units[BeginUnit])
           /\ Top'.detected = Top'.begun
           /\ Top'.pending = Top'.begun
           /\ Top'.begun = "Ok" <=> Top'.kind # "Erroneous"
           /\ (units[BeginUnit].connected /\ Top'.begun # "Ok") =>
                  units'[BeginUnit].direction = units[BeginUnit].direction]_vars

\* C29 witness: a list-directed Begin on a unit that is unformatted and
\* connected for direct access has returned an erroneous statement carrying
\* the formatting mismatch, the first of the two checks that fail.
C29_Witness ==
    /\ last.op \in ListBegins
    /\ last.unit = 6
    /\ stack # <<>>
    /\ Top.kind = "Erroneous"
    /\ Top.begun = "FormattedIoOnUnformattedUnit"
    /\ units[6].isUnformatted = "true"
    /\ units[6].access = "Direct"

\* ------------------------------------------------------------------ C30
\* The permissions the ACTION= keyword of the step asks for differ from those
\* of the unit of the OPEN statement
ActionDiffers ==
    \/ (last'.arg # "WRITE") # units[Top.unit].mayRead
    \/ (last'.arg # "READ") # units[Top.unit].mayWrite

\* C30: in the OPEN of a unit that existed, SetAction with a valid keyword
\* records an error exactly when the permissions asked for differ from the
\* unit's, and then leaves the pending action of the statement as it was; in
\* the OPEN of a unit that did not exist, and for matching permissions, it
\* records no error and the action is pending.
C30_SetActionOnOpenUnit ==
    [][(stack # <<>> /\ Top.kind = "Open" /\ ~Top.completed
          /\ last'.op = "SetAction"
          /\ last'.arg \in {"READ", "WRITE", "READWRITE"}
          /\ Len(stack') = Len(stack)) =>
           /\ crashed' = "none"
           /\ units' = units
           /\ IF Top.wasExtant /\ ActionDiffers
              THEN /\ InError(Top')
                   /\ Top'.detected # "Ok"
                   /\ ~InError(Top) => Top'.ioStat = "GenericError"
                   /\ Top'.oAction = Top.oAction
              ELSE /\ Top'.ioStat = Top.ioStat
                   /\ Top'.detected = Top.detected
                   /\ last'.ret = "true"
                   /\ Top'.oAction =
                        (CASE last'.arg = "READ" -> "Read"
                           [] last'.arg = "WRITE" -> "Write"
                           [] last'.arg = "READWRITE" -> "ReadWrite")]_vars

\* ------------------------------------------------------------------ C31
\* C31: on an OPEN statement that has not completed, SetRecl(n) with n > 0
\* returns true and stores n as the record length of the unit when the unit
\* is new or n is the record length it is open with; on a unit that was open
\* with another record length (or none) it records an error, returns false
\* and changes nothing of the registry, aborting only when no channel is
\* enabled.
C31_SetReclOnOpenUnit ==
    (stack # <<>> /\ ~Top.callback /\ crashed = "none"
       /\ Top.kind = "Open" /\ ~Top.completed) =>
        \A n \in 1..MaxRecl :
            \A o \in SetRecl(Top, units, n) :
                IF Top.wasExtant /\ units[Top.unit].openRecl # n
                THEN /\ o.units = units
                     /\ o.crash = "none" =>
                            /\ o.ret = "false"
                            /\ InError(o.s)
                            /\ ~InError(Top) => o.s.ioStat = "GenericError"
                     /\ o.crash # "none" =>
                            o.crash = "unhandled" /\ Top.flags = {}
                ELSE /\ o.crash = "none"
                     /\ o.ret = "true"
                     /\ o.s = Top
                     /\ o.units = [units EXCEPT ![Top.unit].openRecl = n]

\* C31 witness: SetRecl with a positive length was refused in the OPEN of a
\* unit that is open with record length 1, which it still has.
C31_Witness ==
    /\ last.op = "SetRecl"
    /\ last.arg = "positive"
    /\ last.ret = "false"
    /\ crashed = "none"
    /\ stack # <<>>
    /\ Top.kind = "Open"
    /\ Top.wasExtant
    /\ Top.ioStat = "GenericError"
    /\ units[Top.unit].openRecl = 1

\* ------------------------------------------------------------------ C32
\* A step that is a call of SetAsynchronous
SetAsynchronousCalled ==
    /\ stack # <<>>
    /\ last'.op = "SetAsynchronous"
    /\ Len(stack') = Len(stack)

\* SetAsynchronous returning on a statement of an external unit other than
\* OPEN: asynchronous only for YES on a unit with the capability; YES without
\* it records the bad-asynchronous status; NO records nothing
AsynchronousRequest ==
    /\ Top'.async # Top.async =>
           /\ last'.arg = "YES"
           /\ units[Top.unit].mayAsynchronous
           /\ Top'.async
    /\ (last'.arg = "YES" /\ units[Top.unit].mayAsynchronous) =>
           /\ Top'.async
           /\ Top'.ioStat = Top.ioStat
    /\ (last'.arg = "YES" /\ ~units[Top.unit].mayAsynchronous) =>
           /\ InError(Top')
           /\ ~InError(Top) => Top'.ioStat = "BadAsynchronous"
           /\ last'.ret = "false"
    /\ last'.arg = "NO" =>
           /\ Top'.ioStat = Top.ioStat
           /\ Top'.detected = Top.detected
    /\ units'[Top.unit].mayAsynchronous = units[Top.unit].mayAsynchronous

\* C32 as written: the above on an external transfer statement, and an abort
\* on every statement that is neither OPEN, external transfer nor erroneous.
C32_SetAsynchronous ==
    [][SetAsynchronousCalled =>
           /\ (Top.kind \in TransferKinds /\ crashed' = "none") =>
                  AsynchronousRequest
           /\ Top.kind \notin TransferKinds \cup {"Open", "Erroneous"} =>
                  crashed' # "none"]_vars

\* C32 amended: the above on every statement of an external unit other than
\* OPEN (transfer, CLOSE, the positioning statements, WAIT, INQUIRE by unit),
\* an abort only by escalation there, and an abort on every statement that is
\* neither OPEN, a statement of an external unit nor erroneous.
C32_SetAsynchronousOnExternal ==
    [][SetAsynchronousCalled =>
           /\ (IsExternalIoStatementBase(Top) /\ Top.kind # "Open") =>
                  /\ crashed' = "none" => AsynchronousRequest
                  /\ crashed' # "none" =>
                         crashed' = "unhandled" /\ Top.flags = {}
           /\ (~IsExternalIoStatementBase(Top) /\ Top.kind # "Erroneous") =>
                  crashed' # "none"]_vars

\* C32 witness: SetAsynchronous("YES") on an external transfer statement whose
\* unit has no asynchronous capability returned false with the status stored,
\* the statement being synchronous.
C32_Witness ==
    /\ last.op = "SetAsynchronous"
    /\ last.arg = "YES"
    /\ last.ret = "false"
    /\ crashed = "none"
    /\ stack # <<>>
    /\ Top.kind \in TransferKinds
    /\ ~units[Top.unit].mayAsynchronous
    /\ Top.ioStat = "BadAsynchronous"
    /\ ~Top.async

\* ------------------------------------------------------------------ C33
\* The unit number of the Begin call of the step names a connected unit
NamesConnectedUnit ==
    last'.unit \in UnitNumbers /\ units[last'.unit].connected

\* C33: BeginFlush changes nothing of the registry; on a unit that is not
\* connected it returns a no-op statement holding ok for a non-negative unit
\* number and the bad-flush-unit status for a negative one; on a connected
\* unit it begins a Flush statement, as a statement of the child context when
\* the unit has one.
C33_BeginFlush ==
    [][(last'.op = "BeginFlush" /\ Len(stack') = Len(stack) + 1) =>
           /\ units' = units
           /\ crashed' = "none"
           /\ IF NamesConnectedUnit
              THEN /\ Top'.kind = "Misc"
                   /\ Top'.which = "Flush"
                   /\ Top'.unit = last'.unit
                   /\ Top'.viaChild = units[last'.unit].child
                   /\ Top'.begun = "Ok"
                   /\ ~InError(Top')
              ELSE /\ Top'.kind = "Noop"
                   /\ Top'.unit = NoUnit
                   /\ Top'.ioStat = "Ok"
                   /\ Top'.pending = (IF last'.unit >= 0 THEN "Ok"
                                      ELSE "BadFlushUnit")
                   /\ Top'.begun = Top'.pending]_vars

\* C33 witness: BeginFlush on unit 6, which is not connected, has returned a
\* no-op statement with nothing pending.
C33_Witness ==
    /\ last.op = "BeginFlush"
    /\ last.unit = 6
    /\ ~units[6].connected
    /\ stack # <<>>
    /\ Top.kind = "Noop"
    /\ Top.pending = "Ok"

\* ------------------------------------------------------------------ C34
\* The Begin calls that resolve their unit with a lookup that does not create
NonCreatingBegins ==
    {"BeginWait", "BeginWaitAll", "BeginClose", "BeginFlush", "BeginBackspace",
     "BeginInquireUnit", "BeginInquireFile"}

\* The statement variants bound to no unit that these calls return for a unit
\* that is not connected
UnitlessKinds == {"Noop", "InquireNoUnit", "InquireUnconnectedFile"}

\* C34: a Begin call of WAIT, CLOSE, FLUSH, BACKSPACE or INQUIRE connects no
\* unit and changes no unconnected slot of the registry, whatever unit number
\* or path it is given; for a unit that is not connected it returns a
\* statement bound to no unit, which BeginBackspace gives the
\* bad-backspace-unit status; no later call on such a statement, EndIoStatement
\* included, changes the registry; and EndIoStatement returns the status the
\* statement was given.
C34_NonCreatingLookup ==
    [][/\ (last'.op \in NonCreatingBegins /\ Len(stack') = Len(stack) + 1) =>
              /\ \A n \in UnitNumbers :
                     /\ units'[n].connected = units[n].connected
                     /\ ~units[n].connected => units'[n] = units[n]
              /\ ~NamesConnectedUnit =>
                     /\ units' = units
                     /\ Top'.unit = NoUnit
                     /\ Top'.kind \in UnitlessKinds
                     /\ last'.op = "BeginBackspace" =>
                            /\ Top'.kind = "Noop"
                            /\ Top'.pending = "BadBackspaceUnit"
       /\ (stack # <<>> /\ Top.kind \in UnitlessKinds
             /\ Len(stack') <= Len(stack)) =>
              units' = units
       /\ (stack # <<>> /\ Top.kind = "Noop" /\ Top.ioStat = "Ok"
             /\ last'.op = "EndIoStatement") =>
              IF Top.pending = "Ok" \/ Top.flags # {}
              THEN crashed' = "none" /\ last'.ret = Top.pending
              ELSE crashed' = "unhandled"]_vars

\* C34 witness: a BACKSPACE statement on a unit that is not connected has
\* ended with the bad-backspace-unit status and no unit is connected.
C34_Witness ==
    /\ last.op = "EndIoStatement"
    /\ last.arg = "Noop"
    /\ last.ret = "BadBackspaceUnit"
    /\ crashed = "none"
    /\ stack = <<>>
    /\ \A n \in UnitNumbers : units[n] = Unconnected

\* ------------------------------------------------------------------ C35
\* C35: a keyword setter that returns after a value of no table leaves the
\* modes of the statement (advancing, pad, editing flags, delimiter,
\* rounding, asynchronous) and the whole registry as they were.
C35_BadKeywordChangesNothing ==
    [][(stack # <<>> /\ last'.op \in KeywordSetters /\ last'.arg = "BOGUS"
          /\ Len(stack') = Len(stack) /\ crashed' = "none") =>
           /\ Top'.nonAdvancing = Top.nonAdvancing
           /\ Top'.pad = Top.pad
           /\ Top'.editingFlags = Top.editingFlags
           /\ Top'.delim = Top.delim
           /\ Top'.round = Top.round
           /\ Top'.async = Top.async
           /\ units' = units]_vars

\* ------------------------------------------------------------------ C36
\* C36: a decode into a buffer of n bytes stores nothing before the first
\* byte of the buffer, and the text it returns, with its terminator, lies
\* within the n bytes.
C36_DecodeStaysInBuffer ==
    Decoded =>
        /\ ~eval.out.underrun
        /\ eval.out.crash = "none"
        /\ eval.out.ret = "text" => Len(eval.out.text) + 1 <= eval.n

\* ------------------------------------------------------------------ C37
OpenOnlyEntryPoints == OpenOnlySetters \cup {"GetNewUnit"}

\* C37: on an erroneous statement every OPEN-only entry point returns false,
\* without aborting or faulting, and leaves the statement and the registry
\* as they were.
C37_ErroneousOpenOnlyReturnsFalse ==
    [][(stack # <<>> /\ Top.kind = "Erroneous"
          /\ last'.op \in OpenOnlyEntryPoints
          /\ nsets' + ngets' > nsets + ngets) =>
           /\ crashed' = "none"
           /\ last'.ret = "false"
           /\ stack' = stack
           /\ units' = units]_vars

====
